---- MODULE Spec2Model ----
(***************************************************************************)
(* A model of parts of the reproto schema compiler:                        *)
(*   - RustCompiler::write_mod_files   (backend/rust/src/rust_compiler.rs) *)
(*   - Merge for Vec<RpLoc<RpCode>>    (src/core/rp_code.rs)               *)
(*   - the Java Processor              (src/backend/java/processor.rs)     *)
(*   - the Rust backend's emitters     (backend/rust/src/rust_backend.rs)  *)
(*   - string decoding and code-block stripping (src/parser/parser.rs)     *)
(*   - type_spec and into_rust_type; RpRegistered; RpDecl::into_reg        *)
(*   - the Builder listener; the check command; for_each_loc               *)
(*   - GitObjects; publishing to a repository                              *)
(*   - java_quote_string, Type::format and FileSpec::format                *)
(* Every component has its own variables and its own specification; a      *)
(* specification keeps the variables of the other components idle.         *)
(***************************************************************************)
EXTENDS Integers, Sequences, FiniteSets, Bags, TLC

VARIABLES
    \* ---- RustCompiler::write_mod_files
    fs,         \* module files on disk: directory node -> lines of its mod.rs
    dirs,       \* directory nodes that exist under (and including) out_path
    files,      \* the package set (processed package paths) of the last run
    created,    \* the "+mod" debug log of the last run: files it set out to create
    modResult,  \* "None" before any run, then "Ok" or "Err"
    rerun       \* history: the last run repeated the package set of a run that returned Ok

modVars == <<fs, dirs, files, created, modResult, rerun>>

VARIABLES
    \* ---- Merge for Vec<RpLoc<RpCode>>
    codesA,     \* a list of code blocks
    codesB,     \* another list of code blocks
    mergedAB,   \* the outcome of codesA.merge(codesB), once computed
    mergedBA    \* the outcome of codesB.merge(codesA), once computed

mergeVars == <<codesA, codesB, mergedAB, mergedBA>>

VARIABLES
    \* ---- the Java Processor (Processor::process)
    jTypes,     \* env.types in iteration order: the declarations to process
    jFailing,   \* the class names for which the listener's class_added fails
    jIdx,       \* position of the `for` loop of process in jTypes
    jDisk,      \* the .java files on disk: declaration name -> lines
    jStatus,    \* "Running", then the result of process: "Ok" or "Err"
    jErrors,    \* the errors the returned Err carries
    jTrace      \* what the run did to its specs and listeners so far, in order

javaVars == <<jTypes, jFailing, jIdx, jDisk, jStatus, jErrors, jTrace>>

VARIABLES
    \* ---- the Rust backend (RustBackend::process_*)
    rBody,      \* the declaration body handed to the backend
    rOut,       \* out.0: the items pushed to the RustFileSpec
    rResult,    \* "None" before the call, then "Ok" or "Err"
    rPos        \* the position the returned error carries (0: none returned)

rustVars == <<rBody, rOut, rResult, rPos>>

VARIABLES
    \* ---- the parser's string and code-block functions
    dItems,     \* the derivation of a string literal under the grammar's string rule
    dInput,     \* the string literal, quotes included, as code points
    dResult,    \* the outcome of decode_escaped_string(dInput), once computed
    sInput,     \* the content of a code block, as code points
    sResult     \* the outcome of strip_code_block(sInput), once computed

parserVars == <<dItems, dInput, dResult, sInput, sResult>>

VARIABLES
    \* ---- a type from its source text to its Rust type
    tQueue,     \* the token queue of a type_spec, as the grammar produces it
    tPos,       \* the position of the field the type belongs to
    tParsed,    \* _type_spec(tQueue), once computed: <<>> or <<its result>>
    tResult     \* into_rust_type of the parsed type, once computed: <<>> or <<its result>>

typeVars == <<tQueue, tPos, tParsed, tResult>>

VARIABLES
    \* ---- RpRegistered::fields and field_by_ident
    regSelf,    \* the registered entity the method is called on
    regOut      \* the call made and what it returned

regVars == <<regSelf, regOut>>

VARIABLES
    \* ---- RpDecl::into_reg
    declSelf,   \* the declaration into_reg is called on
    declSize,   \* how many declarations, sub-types and variants it was built from
    declRegs    \* into_reg's result, once computed: <<>> or <<the Vec<RpReg>>>

declVars == <<declSelf, declSize, declRegs>>

VARIABLES
    \* ---- the Builder listener of the Java backend
    bSpec,      \* e.spec: the class handed to class_added
    bCalls,     \* how many times class_added was called on it
    bResult     \* what the last call returned: "None" before the first, then "Ok" or "Err"

builderVars == <<bSpec, bCalls, bResult>>

VARIABLES
    \* ---- the check command (entry::inner)
    ckPublish,  \* the matches setup_publish_matches yields for manifest.publish
    ckPackages, \* the matches setup_matches yields for the packages of the command line
    ckLoop,     \* the run: results, position of the loop in them, errors recorded so far,
                \* the matches semck_check was called on, and how the run stands
    ckReturn    \* what entry returned, once it did

checkVars == <<ckPublish, ckPackages, ckLoop, ckReturn>>

VARIABLES
    \* ---- ForEachLoc::for_each_loc
    lItems,     \* the collection: the items, each a value with its position
    lLoop       \* the run: position of the `for` loop, the invocations of the
                \* callback so far (history), and what for_each_loc returned

locVars == <<lItems, lLoop>>

VARIABLES
    \* ---- GitObjects
    gStart,     \* the objects the wrapped FileObjects held when GitObjects was made
    gSelf,      \* the GitObjects: its git_repo and its file_objects
    gLog        \* history: the calls made on the GitObjects, with what they returned

gitVars == <<gStart, gSelf, gLog>>

VARIABLES
    \* ---- publishing to a repository: Objects and Index
    iObjects,   \* the checksums the object storage holds an object for
    iIndex,     \* the index: package version -> the checksum recorded (<<>>: none)
    iLast       \* history: the last call, the index entry before it, what it returned

indexVars == <<iObjects, iIndex, iLast>>

VARIABLES
    \* ---- java_quote_string
    qInput,     \* the string to quote
    qOutput     \* None (<<>>) before the call, then the literal returned

quoteVars == <<qInput, qOutput>>

VARIABLES
    \* ---- Type::format
    fType,      \* the java type to format
    fLevel,     \* the level it is formatted at
    fOut        \* None (<<>>) before the call, then the tokens of the text returned

fmtVars == <<fType, fLevel, fOut>>

VARIABLES
    \* ---- FileSpec::format
    flElements, \* the elements of the FileSpec: its classes
    flOut       \* None (<<>>) before the call, then the lines of the text returned

fileVars == <<flElements, flOut>>

VARIABLES
    \* ---- RpRegistered::is_assignable_from
    hA,         \* a registered declaration
    hB,         \* another
    hC,         \* a third
    hOut        \* for each pair asked about, None (<<>>) or what
                \* is_assignable_from returned: aa is hA from hA, ab is hA
                \* from hB, bc is hB from hC, ac is hA from hC

assignVars == <<hA, hB, hC, hOut>>

\* The state of the components introduced after the parser's.
restVars == <<typeVars, regVars, declVars, builderVars, checkVars, locVars, gitVars, indexVars, quoteVars, fmtVars, fileVars, assignVars>>

IdleType ==
    /\ tQueue = <<>>
    /\ tPos = 0
    /\ tParsed = <<>>
    /\ tResult = <<>>

IdleReg ==
    /\ regSelf = [kind |-> "None", body |-> [ptr |-> 0, name |-> "", fields |-> <<>>],
                 part |-> [ptr |-> 0, name |-> "", fields |-> <<>>]]
    /\ regOut = [call |-> "none", ok |-> FALSE, err |-> "", fields |-> <<>>, found |-> <<>>]

IdleDecl ==
    /\ declSelf = [kind |-> "None", ptr |-> <<>>, sub_types |-> <<>>, variants |-> <<>>,
                  decls |-> <<>>]
    /\ declSize = 0
    /\ declRegs = <<>>

IdleBuilder ==
    /\ bSpec = [name |-> "", fields |-> <<>>, body |-> <<>>]
    /\ bCalls = 0
    /\ bResult = "None"

IdleCheck ==
    /\ ckPublish = <<>>
    /\ ckPackages = <<>>
    /\ ckLoop = [status |-> "Done", results |-> <<>>, at |-> 1, errors |-> <<>>,
                 checked |-> <<>>, fatal |-> FALSE]
    /\ ckReturn = [kind |-> "None", errors |-> <<>>]

IdleLoc ==
    /\ lItems = <<>>
    /\ lLoop = [at |-> 1, calls |-> <<>>,
                result |-> [kind |-> "Done", err |-> [message |-> "", pos |-> <<>>]]]

IdleGit ==
    /\ gStart = {}
    /\ gSelf = [git_repo |-> 0, file_objects |-> {}]
    /\ gLog = <<>>

IdleIndex ==
    /\ iObjects = {}
    /\ iIndex = <<>>
    /\ iLast = [call |-> "none", version |-> "", checksum |-> "", before |-> <<>>,
                ok |-> TRUE, err |-> ""]

IdleQuote ==
    /\ qInput = <<>>
    /\ qOutput = <<>>

IdleFmt ==
    /\ fType = [k |-> "class", pkg |-> "", name |-> "", boxed |-> "", args |-> <<>>]
    /\ fLevel = 0
    /\ fOut = <<>>

IdleFile ==
    /\ flElements = <<>>
    /\ flOut = <<>>

IdleAssign ==
    /\ hA = [kind |-> "None", body |-> [ptr |-> 0, name |-> "", fields |-> <<>>], part |-> [ptr |-> 0, name |-> "", fields |-> <<>>]]
    /\ hB = [kind |-> "None", body |-> [ptr |-> 0, name |-> "", fields |-> <<>>], part |-> [ptr |-> 0, name |-> "", fields |-> <<>>]]
    /\ hC = [kind |-> "None", body |-> [ptr |-> 0, name |-> "", fields |-> <<>>], part |-> [ptr |-> 0, name |-> "", fields |-> <<>>]]
    /\ hOut = [aa |-> <<>>, ab |-> <<>>, bc |-> <<>>, ac |-> <<>>]

IdleRest == IdleType /\ IdleReg /\ IdleDecl /\ IdleBuilder /\ IdleCheck /\ IdleLoc /\ IdleGit /\ IdleIndex /\ IdleQuote /\ IdleFmt /\ IdleFile /\ IdleAssign

\* For each of these components, the state of the others.
typeOthers == <<regVars, declVars, builderVars, checkVars, locVars, gitVars, indexVars, quoteVars, fmtVars, fileVars, assignVars>>

IdleTypeOthers == IdleReg /\ IdleDecl /\ IdleBuilder /\ IdleCheck /\ IdleLoc /\ IdleGit /\ IdleIndex /\ IdleQuote /\ IdleFmt /\ IdleFile /\ IdleAssign

regOthers == <<typeVars, declVars, builderVars, checkVars, locVars, gitVars, indexVars, quoteVars, fmtVars, fileVars, assignVars>>

IdleRegOthers == IdleType /\ IdleDecl /\ IdleBuilder /\ IdleCheck /\ IdleLoc /\ IdleGit /\ IdleIndex /\ IdleQuote /\ IdleFmt /\ IdleFile /\ IdleAssign

declOthers == <<typeVars, regVars, builderVars, checkVars, locVars, gitVars, indexVars, quoteVars, fmtVars, fileVars, assignVars>>

IdleDeclOthers == IdleType /\ IdleReg /\ IdleBuilder /\ IdleCheck /\ IdleLoc /\ IdleGit /\ IdleIndex /\ IdleQuote /\ IdleFmt /\ IdleFile /\ IdleAssign

builderOthers == <<typeVars, regVars, declVars, checkVars, locVars, gitVars, indexVars, quoteVars, fmtVars, fileVars, assignVars>>

IdleBuilderOthers == IdleType /\ IdleReg /\ IdleDecl /\ IdleCheck /\ IdleLoc /\ IdleGit /\ IdleIndex /\ IdleQuote /\ IdleFmt /\ IdleFile /\ IdleAssign

checkOthers == <<typeVars, regVars, declVars, builderVars, locVars, gitVars, indexVars, quoteVars, fmtVars, fileVars, assignVars>>

IdleCheckOthers == IdleType /\ IdleReg /\ IdleDecl /\ IdleBuilder /\ IdleLoc /\ IdleGit /\ IdleIndex /\ IdleQuote /\ IdleFmt /\ IdleFile /\ IdleAssign

locOthers == <<typeVars, regVars, declVars, builderVars, checkVars, gitVars, indexVars, quoteVars, fmtVars, fileVars, assignVars>>

IdleLocOthers == IdleType /\ IdleReg /\ IdleDecl /\ IdleBuilder /\ IdleCheck /\ IdleGit /\ IdleIndex /\ IdleQuote /\ IdleFmt /\ IdleFile /\ IdleAssign

gitOthers == <<typeVars, regVars, declVars, builderVars, checkVars, locVars, indexVars, quoteVars, fmtVars, fileVars, assignVars>>

IdleGitOthers == IdleType /\ IdleReg /\ IdleDecl /\ IdleBuilder /\ IdleCheck /\ IdleLoc /\ IdleIndex /\ IdleQuote /\ IdleFmt /\ IdleFile /\ IdleAssign

indexOthers == <<typeVars, regVars, declVars, builderVars, checkVars, locVars, gitVars, quoteVars, fmtVars, fileVars, assignVars>>

IdleIndexOthers == IdleType /\ IdleReg /\ IdleDecl /\ IdleBuilder /\ IdleCheck /\ IdleLoc /\ IdleGit /\ IdleQuote /\ IdleFmt /\ IdleFile /\ IdleAssign

quoteOthers == <<typeVars, regVars, declVars, builderVars, checkVars, locVars, gitVars, indexVars, fmtVars, fileVars, assignVars>>

IdleQuoteOthers == IdleType /\ IdleReg /\ IdleDecl /\ IdleBuilder /\ IdleCheck /\ IdleLoc /\ IdleGit /\ IdleIndex /\ IdleFmt /\ IdleFile /\ IdleAssign

fmtOthers == <<typeVars, regVars, declVars, builderVars, checkVars, locVars, gitVars, indexVars, quoteVars, fileVars, assignVars>>

IdleFmtOthers == IdleType /\ IdleReg /\ IdleDecl /\ IdleBuilder /\ IdleCheck /\ IdleLoc /\ IdleGit /\ IdleIndex /\ IdleQuote /\ IdleFile /\ IdleAssign

fileOthers == <<typeVars, regVars, declVars, builderVars, checkVars, locVars, gitVars, indexVars, quoteVars, fmtVars, assignVars>>

IdleFileOthers == IdleType /\ IdleReg /\ IdleDecl /\ IdleBuilder /\ IdleCheck /\ IdleLoc /\ IdleGit /\ IdleIndex /\ IdleQuote /\ IdleFmt /\ IdleAssign

assignOthers == <<typeVars, regVars, declVars, builderVars, checkVars, locVars, gitVars, indexVars, quoteVars, fmtVars, fileVars>>

IdleAssignOthers == IdleType /\ IdleReg /\ IdleDecl /\ IdleBuilder /\ IdleCheck /\ IdleLoc /\ IdleGit /\ IdleIndex /\ IdleQuote /\ IdleFmt /\ IdleFile

vars == <<modVars, mergeVars, javaVars, rustVars, parserVars, restVars>>

(***************************************************************************)
(* Generic helpers                                                         *)
(***************************************************************************)
Range(s) == {s[i] : i \in 1..Len(s)}

Prefix(s, n) == SubSeq(s, 1, n)

IsPrefixOf(p, s) == Len(p) <= Len(s) /\ Prefix(s, Len(p)) = p

Put(f, k, v) == [x \in (DOMAIN f) \cup {k} |-> IF x = k THEN v ELSE f[x]]

(***************************************************************************)
(* Names.  A path component is a string; Rust compares components          *)
(* byte-wise, which NameOrder lists for the names the model uses.  MOD is  *)
(* the stem of the module file (mod.rs).                                   *)
(***************************************************************************)
MOD == "mod"

NameOrder == <<"a", "b", "mod", "z">>

Rank(name) == CHOOSE i \in 1..Len(NameOrder) : NameOrder[i] = name

\* Ord for Path: component by component, a proper prefix first.
RECURSIVE PathLess(_, _)
PathLess(p, q) ==
    IF p = <<>> THEN q # <<>>
    ELSE IF q = <<>> THEN FALSE
    ELSE IF Head(p) # Head(q) THEN Rank(Head(p)) < Rank(Head(q))
    ELSE PathLess(Tail(p), Tail(q))

\* Iteration order of a BTreeSet<String>.
RECURSIVE SortNames(_)
SortNames(S) ==
    IF S = {} THEN <<>>
    ELSE LET m == CHOOSE x \in S : \A y \in S : Rank(x) <= Rank(y)
         IN  <<m>> \o SortNames(S \ {m})

\* Iteration order of a BTreeMap keyed by PathBuf: the keys in Path order.
RECURSIVE SortPaths(_)
SortPaths(S) ==
    IF S = {} THEN <<>>
    ELSE LET m == CHOOSE x \in S : \A y \in S \ {x} : PathLess(x, y)
         IN  <<m>> \o SortPaths(S \ {m})

(***************************************************************************)
(* RustCompiler::write_mod_files                                           *)
(***************************************************************************)
\* The processed package paths (backend.package(key).parts) a run may be given.
Packages == {<<"a">>, <<"b">>, <<"a", "b">>, <<"a", "z">>, <<"a", "b", "z">>}

\* How many packages one run holds at most.
MaxPkgs == 2

PackageSets == {S \in SUBSET Packages : Cardinality(S) <= MaxPkgs}

\* A directory node is the path of a directory relative to out_path.
Nodes == UNION {{Prefix(p, n) : n \in 0..(Len(p) - 1)} : p \in Packages}

\* full_path of the module file of a directory node: <node>/mod.rs
ModPath(node) == Append(node, MOD)

\* root_names: the first part of every package (it.peek() before the loop).
RootNames(keys) == {parts[1] : parts \in {k \in keys : Len(k) > 0}}

\* A slip: the part itself, instead of the peeked next part, is inserted.
LoopEntries_CurrentPart(keys) ==
    UNION {{<<Prefix(parts, i), parts[i]>> : i \in 1..(Len(parts) - 1)} :
           parts \in keys}

\* The while loop: every part that has a next part (it.peek() is Some) adds
\* that next part to the entry of the directory the parts so far name.
LoopEntries(keys) ==
    UNION {{<<Prefix(parts, i), parts[i + 1]>> : i \in 1..(Len(parts) - 1)} :
           parts \in keys}

\* The map `packages` when the second loop starts: the loop's entries, and
\* the root module with root_names inserted last.
PackagesMap(keys) ==
    LET loop == LoopEntries(keys)
        inner == {e[1] : e \in loop}
    IN  [node \in inner \cup {<<>>} |->
            IF node = <<>> THEN RootNames(keys)
            ELSE {e[2] : e \in {x \in loop : x[1] = node}}]

\* The lines written for one module file: one `pub mod <child>;` per child,
\* in the set's iteration order.  A line is modelled by the child it names.
ModLines(children) == SortNames(children)

\* A slip: the guard dropped, every module file rewritten on every run.
NeedsWrite_Always(disk, node) == TRUE

\* `!full_path.is_file()`: the file is written only when it does not exist.
NeedsWrite(disk, node) == node \notin DOMAIN disk

\* `!parent.is_dir()`
NeedsDir(ds, node) == node \notin ds

\* fs::create_dir_all(parent): the directory and all its ancestors.
CreateDirAll(ds, node) == ds \cup {Prefix(node, n) : n \in 0..Len(node)}

\* One iteration of `for (full_path, children) in packages`, with `budget`
\* I/O operations succeeding before one fails.  The I/O operations of an
\* iteration are, in order: create_dir_all (when the directory is missing),
\* File::create and one writeln! per child (when the file is missing).
\* File::create truncates; a failed writeln! leaves the lines written so far.
EntryStep(st, node, children) ==
    LET lines  == ModLines(children)
        nd     == IF NeedsDir(st.dirs, node) THEN 1 ELSE 0
        nw     == NeedsWrite(st.fs, node)
        dirOk  == st.budget >= nd
        dirs1  == IF nd = 1 /\ dirOk THEN CreateDirAll(st.dirs, node) ELSE st.dirs
        b1     == st.budget - nd
        logged == IF dirOk /\ nw THEN st.created \cup {node} ELSE st.created
    IN  IF ~dirOk THEN [st EXCEPT !.ok = FALSE]
        ELSE IF ~nw THEN [st EXCEPT !.dirs = dirs1, !.budget = b1]
        ELSE IF b1 = 0
             THEN [st EXCEPT !.dirs = dirs1, !.created = logged, !.ok = FALSE]
        ELSE IF b1 - 1 < Len(lines)
             THEN [st EXCEPT !.dirs = dirs1, !.created = logged, !.ok = FALSE,
                             !.fs = Put(st.fs, node, Prefix(lines, b1 - 1))]
        ELSE [st EXCEPT !.dirs = dirs1, !.created = logged,
                        !.budget = b1 - 1 - Len(lines),
                        !.fs = Put(st.fs, node, lines)]

\* The second loop, over the map in key order; `?` returns at the first error.
RECURSIVE WriteLoop(_, _, _)
WriteLoop(st, order, map) ==
    IF order = <<>> \/ ~st.ok THEN st
    ELSE LET node == CHOOSE n \in DOMAIN map : ModPath(n) = Head(order)
         IN  WriteLoop(EntryStep(st, node, map[node]), Tail(order), map)

\* The most I/O operations one run performs.
MaxOps(map) == Cardinality(DOMAIN map) * 2 + Cardinality(UNION {map[n] : n \in DOMAIN map})

\* write_mod_files(files) from the disk (disk, ds): failAt = 0 is a run
\* without I/O failure, failAt = k a run whose k-th I/O operation fails.
write_mod_files(disk, ds, keys, failAt) ==
    LET map   == PackagesMap(keys)
        order == SortPaths({ModPath(n) : n \in DOMAIN map})
        st0   == [fs |-> disk, dirs |-> ds, created |-> {}, ok |-> TRUE,
                  budget |-> IF failAt = 0 THEN MaxOps(map) + 1 ELSE failAt - 1]
    IN  WriteLoop(st0, order, map)

InitMod ==
    /\ fs = <<>>
    /\ dirs = {}
    /\ files = {}
    /\ created = {}
    /\ modResult = "None"
    /\ rerun = FALSE

IdleMod == InitMod

IdleDecode ==
    /\ dItems = <<>>
    /\ dInput = <<>>
    /\ dResult = [done |-> FALSE, ok |-> FALSE, err |-> "", out |-> <<>>]

IdleStrip ==
    /\ sInput = <<>>
    /\ sResult = [done |-> FALSE, lines |-> <<>>]

IdleParser == IdleDecode /\ IdleStrip

IdleRust ==
    /\ rBody = [kind |-> "None", name |-> "", fields |-> <<>>, codes |-> <<>>,
                sub_types |-> <<>>]
    /\ rOut = <<>>
    /\ rResult = "None"
    /\ rPos = 0

IdleJava ==
    /\ jTypes = <<>>
    /\ jFailing = {}
    /\ jIdx = 1
    /\ jDisk = <<>>
    /\ jStatus = "Ok"
    /\ jErrors = <<>>
    /\ jTrace = <<>>

IdleMerge ==
    /\ codesA = <<>>
    /\ codesB = <<>>
    /\ mergedAB = [done |-> FALSE, ok |-> FALSE, list |-> <<>>]
    /\ mergedBA = [done |-> FALSE, ok |-> FALSE, list |-> <<>>]

WriteModFiles ==
    \E keys \in PackageSets :
        \E failAt \in 0..MaxOps(PackagesMap(keys)) :
            \E st \in {write_mod_files(fs, dirs, keys, failAt)} :
                /\ fs' = st.fs
                /\ dirs' = st.dirs
                /\ created' = st.created
                /\ files' = keys
                /\ modResult' = IF st.ok THEN "Ok" ELSE "Err"
                /\ rerun' = (modResult = "Ok" /\ keys = files)
                /\ UNCHANGED <<mergeVars, javaVars, rustVars, parserVars, restVars>>

NextMod == WriteModFiles

StartMod == InitMod /\ IdleMerge /\ IdleJava /\ IdleRust /\ IdleParser /\ IdleRest

SpecMod == StartMod /\ [][NextMod]_vars

(***************************************************************************)
(* Merge for Vec<RpLoc<RpCode>> (src/core/rp_code.rs)                      *)
(***************************************************************************)
\* RpLoc<RpCode>: a code block (context, lines) with the position it was
\* declared at.
CodeBlocks ==
    {[context |-> "java", lines |-> <<"j">>, pos |-> 1],
     [context |-> "rust", lines |-> <<"r">>, pos |-> 2],
     [context |-> "rust", lines |-> <<"s", "t">>, pos |-> 3]}

\* How many code blocks a list holds at most.
MaxCodes == 2

RECURSIVE SeqsUpTo(_, _)
SeqsUpTo(S, n) ==
    IF n = 0 THEN {<<>>}
    ELSE LET shorter == SeqsUpTo(S, n - 1)
         IN  shorter \cup {Append(q, x) : q \in {r \in shorter : Len(r) = n - 1}, x \in S}

CodeLists == SeqsUpTo(CodeBlocks, MaxCodes)

\* A slip: a merge that skips the blocks the target already holds.
merge_SkipKnown(self, source) ==
    [done |-> TRUE, ok |-> TRUE,
     list |-> self \o SelectSeq(source, LAMBDA c : c \notin Range(self))]

\* self.merge(source): self.extend(source); Ok(()).  `list` is self afterwards.
merge(self, source) ==
    [done |-> TRUE, ok |-> TRUE, list |-> self \o source]

InitMerge ==
    /\ codesA \in CodeLists
    /\ codesB \in CodeLists
    /\ mergedAB = [done |-> FALSE, ok |-> FALSE, list |-> <<>>]
    /\ mergedBA = [done |-> FALSE, ok |-> FALSE, list |-> <<>>]

MergeBIntoA ==
    /\ ~mergedAB.done
    /\ mergedAB' = merge(codesA, codesB)
    /\ UNCHANGED <<codesA, codesB, mergedBA>>
    /\ UNCHANGED <<modVars, javaVars, rustVars, parserVars, restVars>>

MergeAIntoB ==
    /\ ~mergedBA.done
    /\ mergedBA' = merge(codesB, codesA)
    /\ UNCHANGED <<codesA, codesB, mergedAB>>
    /\ UNCHANGED <<modVars, javaVars, rustVars, parserVars, restVars>>

NextMerge == MergeBIntoA \/ MergeAIntoB

StartMerge == InitMerge /\ IdleMod /\ IdleJava /\ IdleRust /\ IdleParser /\ IdleRest

SpecMerge == StartMerge /\ [][NextMerge]_vars

(***************************************************************************)
(* The Java Processor (src/backend/java/processor.rs) and the parts of     *)
(* the Java code generator it uses (codegen/src/java/mod.rs)               *)
(***************************************************************************)
\* ast::Type.  args holds the inner type of an array, the key and value of a
\* map, the arguments of a tuple; name the name of a custom or used type and
\* used the prefix of a used type.
Ty(k) == [k |-> k, name |-> "", used |-> "", args |-> <<>>]

TyOf(k, args) == [k |-> k, name |-> "", used |-> "", args |-> args]

\* codegen::java::Type: a class type with its arguments or a primitive type
\* (name is then the primitive's name and boxed its boxed name).
JClass(pkg, name, args) ==
    [k |-> "class", pkg |-> pkg, name |-> name, boxed |-> "", args |-> args]

JPrimitive(primitive, boxed) ==
    [k |-> "primitive", pkg |-> "", name |-> primitive, boxed |-> boxed, args |-> <<>>]

\* The package all declarations of the model live in, and the prefixes
\* env.lookup_used resolves.
JavaPackage == "p"

UsedPackages == {"u"}

JOk(ty) == [ok |-> TRUE, ty |-> ty]

JErr == [ok |-> FALSE, ty |-> JClass("", "", <<>>)]

\* Processor::convert_type
RECURSIVE convert_type(_)
convert_type(ty) ==
    CASE ty.k = "String" -> JOk(JClass("java.lang", "String", <<>>))
      [] ty.k \in {"I32", "U32"} -> JOk(JPrimitive("int", "Integer"))
      [] ty.k \in {"I64", "U64"} -> JOk(JPrimitive("long", "Long"))
      [] ty.k = "Array" ->
            LET argument == convert_type(ty.args[1])
            IN  IF argument.ok
                THEN JOk(JClass("java.util", "List", <<argument.ty>>))
                ELSE JErr
      [] ty.k = "Custom" -> JOk(JClass(JavaPackage, ty.name, <<>>))
      [] ty.k = "Any" -> JOk(JClass("java.lang", "Object", <<>>))
      [] ty.k = "Float" -> JOk(JPrimitive("float", "Float"))
      [] ty.k = "Double" -> JOk(JPrimitive("double", "Double"))
      [] ty.k = "UsedType" ->
            IF ty.used \in UsedPackages
            THEN JOk(JClass(ty.used, ty.name, <<>>))
            ELSE JErr
      [] ty.k = "Map" ->
            LET key   == convert_type(ty.args[1])
                value == convert_type(ty.args[2])
            IN  IF ~key.ok THEN JErr
                ELSE IF ~value.ok THEN JErr
                ELSE JOk(JClass("java.util", "Map", <<key.ty, value.ty>>))
      [] OTHER -> JErr

\* ast::MessageMember / InterfaceMember / SubTypeMember: a field or a code
\* block.  A code block carries the context it was written for.
FieldMember(name, ty, optional) ==
    [m |-> "Field", name |-> name, ty |-> ty, optional |-> optional,
     context |-> "", content |-> <<>>]

CodeMember(context, content) ==
    [m |-> "Code", name |-> "", ty |-> Ty("String"), optional |-> FALSE,
     context |-> context, content |-> content]

\* Processor::push_field: the FieldSpec of a field (no id_converter is set).
push_field(field) ==
    LET field_type == convert_type(field.ty)
    IN  IF ~field_type.ok THEN [ok |-> FALSE, name |-> "", ty |-> JErr.ty]
        ELSE [ok |-> TRUE, name |-> field.name,
              ty |-> IF field.optional
                     THEN JClass("java.util", "Optional", <<field_type.ty>>)
                     ELSE field_type.ty]

\* ClassSpec: fields, constructors, methods and elements (literals, nested
\* classes), in the order they were pushed.
ClassSpec(name) ==
    [name |-> name, fields |-> <<>>, constructors |-> <<>>, methods |-> <<>>,
     literals |-> <<>>]

\* build_constructor: one argument per field of the class.
build_constructor(class) == [arguments |-> [i \in 1..Len(class.fields) |-> class.fields[i].name]]

\* build_getters: one getter per field of the class.
build_getters(class) == [i \in 1..Len(class.fields) |-> <<"get", class.fields[i].name>>]

\* Listeners::class_added, as the processor sees it: it fails for the class
\* names in jFailing and otherwise leaves the class as it is.
class_added(class) == class.name \notin jFailing

\* The tail all three process_* functions share: constructor, getters, then
\* the listener.
FinishClass(class) ==
    LET c1 == [class EXCEPT !.constructors = Append(@, build_constructor(class))]
    IN  [c1 EXCEPT !.methods = @ \o build_getters(c1)]

JResult(ok, err, classes, kind, trace) ==
    [ok |-> ok, err |-> err, classes |-> classes, kind |-> kind, trace |-> trace]

\* One call on a spec or a listener: what was called, and the class or
\* interface it was called with (the declaration's name, then the
\* sub-type's).
Ev(ev, on) == [ev |-> ev, on |-> on]

\* A slip: the listener is called before the getters are pushed.
FinishCalls_ListenerBeforeGetters(class, on) ==
    <<Ev("push_constructor", on), Ev("class_added", on)>>
    \o [i \in 1..Len(build_getters(class)) |-> Ev("push_method", on)]

\* The calls of the tail FinishClass stands for: push_constructor, one
\* push_method per getter, then listeners.class_added.
FinishCalls(class, on) ==
    <<Ev("push_constructor", on)>>
    \o [i \in 1..Len(build_getters(class)) |-> Ev("push_method", on)]
    \o <<Ev("class_added", on)>>

\* ClassSpec::new and the push_field calls that filled the class.
BuildCalls(class, on) ==
    <<Ev("new", on)>> \o [i \in 1..Len(class.fields) |-> Ev("push_field", on)]

\* The loop of process_message over message.members, from member i on.
RECURSIVE MessageMembers(_, _, _)
MessageMembers(class, members, i) ==
    IF i > Len(members) THEN [ok |-> TRUE, class |-> class]
    ELSE LET member == members[i]
         IN  IF member.m = "Field"
             THEN LET field == push_field(member)
                  IN  IF ~field.ok THEN [ok |-> FALSE, class |-> class]
                      ELSE MessageMembers(
                             [class EXCEPT !.fields = Append(@, [name |-> field.name, ty |-> field.ty])],
                             members, i + 1)
             ELSE \* MessageMember::Code(ref content, _): pushed whatever its context
                  MessageMembers([class EXCEPT !.literals = Append(@, member.content)],
                                 members, i + 1)

\* Processor::process_message
process_message(message) ==
    LET built == MessageMembers(ClassSpec(message.name), message.members, 1)
    IN  IF ~built.ok THEN JResult(FALSE, "type", <<>>, "class", <<>>)
        ELSE LET class == FinishClass(built.class)
                 calls == BuildCalls(built.class, <<message.name>>)
                          \o FinishCalls(built.class, <<message.name>>)
             IN  IF ~class_added(class) THEN JResult(FALSE, "listener", <<>>, "class", calls)
                 ELSE JResult(TRUE, "", <<class>>, "class",
                              Append(calls, Ev("file.push_class", <<message.name>>)))

TupleFieldName(index) ==
    CASE index = 0 -> "first" [] index = 1 -> "second" [] index = 2 -> "third"
      [] OTHER -> "fieldN"

\* The loop of process_type over the arguments of a tuple, from argument i on.
RECURSIVE TupleArguments(_, _, _)
TupleArguments(class, arguments, i) ==
    IF i > Len(arguments) THEN [ok |-> TRUE, class |-> class]
    ELSE LET field_type == convert_type(arguments[i])
         IN  IF ~field_type.ok THEN [ok |-> FALSE, class |-> class]
             ELSE TupleArguments(
                    [class EXCEPT !.fields =
                        Append(@, [name |-> TupleFieldName(i - 1), ty |-> field_type.ty])],
                    arguments, i + 1)

\* Processor::process_type
process_type(ty) ==
    LET built == IF ty.value.k = "Tuple"
                 THEN TupleArguments(ClassSpec(ty.name), ty.value.args, 1)
                 ELSE [ok |-> TRUE, class |-> ClassSpec(ty.name)]
    IN  IF ~built.ok THEN JResult(FALSE, "type", <<>>, "class", <<>>)
        ELSE LET class == FinishClass(built.class)
                 calls == BuildCalls(built.class, <<ty.name>>)
                          \o FinishCalls(built.class, <<ty.name>>)
             IN  IF ~class_added(class) THEN JResult(FALSE, "listener", <<>>, "class", calls)
                 ELSE JResult(TRUE, "", <<class>>, "class",
                              Append(calls, Ev("file.push_class", <<ty.name>>)))

\* The fields among a member list, as FieldSpecs; not ok when one has a type
\* convert_type rejects.
RECURSIVE FieldSpecs(_, _, _)
FieldSpecs(acc, members, i) ==
    IF i > Len(members) THEN [ok |-> TRUE, fields |-> acc]
    ELSE IF members[i].m # "Field" THEN FieldSpecs(acc, members, i + 1)
    ELSE LET field == push_field(members[i])
         IN  IF ~field.ok THEN [ok |-> FALSE, fields |-> acc]
             ELSE FieldSpecs(Append(acc, [name |-> field.name, ty |-> field.ty]),
                             members, i + 1)

\* The loop of process_interface over interface.sub_types, from sub-type i on;
\* after it, interface_added and push_interface.  sub_type_added and
\* interface_added are the trait's defaults, which return Ok.
RECURSIVE SubTypeClasses(_, _, _, _, _)
SubTypeClasses(classes, interface_fields, interface, i, trace) ==
    LET sub_types == interface.sub_types
    IN  IF i > Len(sub_types)
        THEN JResult(TRUE, "", classes, "interface",
                     trace \o <<Ev("interface_added", <<interface.name>>),
                                Ev("file.push_interface", <<interface.name>>)>>)
        ELSE LET own == FieldSpecs(interface_fields, sub_types[i].members, 1)
                 on  == <<interface.name, sub_types[i].name>>
             IN  IF ~own.ok THEN JResult(FALSE, "type", <<>>, "interface", trace)
                 ELSE LET built == [ClassSpec(sub_types[i].name) EXCEPT !.fields = own.fields]
                          class == FinishClass(built)
                          calls == trace \o BuildCalls(built, on) \o FinishCalls(built, on)
                      IN  IF ~class_added(class)
                          THEN JResult(FALSE, "listener", <<>>, "interface", calls)
                          ELSE SubTypeClasses(
                                 Append(classes, class), interface_fields, interface, i + 1,
                                 calls \o <<Ev("sub_type_added", on),
                                            Ev("interface.push_class", on)>>)

\* Processor::process_interface
process_interface(interface) ==
    LET shared == FieldSpecs(<<>>, interface.members, 1)
    IN  IF ~shared.ok THEN JResult(FALSE, "type", <<>>, "interface", <<>>)
        ELSE SubTypeClasses(<<>>, shared.fields, interface, 1,
                            <<Ev("new", <<interface.name>>)>>)

\* The match on *decl in process.
process_decl(decl) ==
    CASE decl.kind = "Interface" -> process_interface(decl)
      [] decl.kind = "Message" -> process_message(decl)
      [] decl.kind = "Type" -> process_type(decl)

\* A slip: the level is not looked at.
FormatPrimitive_Unboxed(ty, level) == ty.name

\* PrimitiveType::format
FormatPrimitive(ty, level) == IF level <= 0 THEN ty.name ELSE ty.boxed

\* Type::format at a level, as tokens; for a class, ClassType::format: the
\* name, then the arguments between "<" and ">", formatted one level up.
RECURSIVE FormatType(_, _)
FormatType(ty, level) ==
    IF ty.k = "primitive" THEN <<FormatPrimitive(ty, level)>>
    ELSE IF ty.args = <<>> THEN <<ty.name>>
    ELSE LET FormatArgs[i \in 0..Len(ty.args)] ==
                 IF i = 0 THEN <<>>
                 ELSE FormatArgs[i - 1] \o (IF i > 1 THEN <<",">> ELSE <<>>)
                      \o FormatType(ty.args[i], level + 1)
         IN  <<ty.name, "<">> \o FormatArgs[Len(ty.args)] \o <<">">>

\* ElementSpec::Literal(content): every line of every literal, verbatim.
RECURSIVE LiteralLines(_)
LiteralLines(literals) ==
    IF literals = <<>> THEN <<>>
    ELSE [k \in 1..Len(Head(literals)) |-> <<Head(literals)[k]>>]
         \o LiteralLines(Tail(literals))

\* ClassSpec::as_block, as lines: a line is a sequence of tokens, a literal
\* line the one-token line of its text.
FormatClass(class) ==
    <<<<"class", class.name, "{">>>>
    \o [i \in 1..Len(class.fields) |->
            FormatType(class.fields[i].ty, 0) \o <<class.fields[i].name, ";">>]
    \o [i \in 1..Len(class.constructors) |->
            <<class.name, "(">> \o class.constructors[i].arguments \o <<")">>]
    \o [i \in 1..Len(class.methods) |-> class.methods[i] \o <<"()">>]
    \o LiteralLines(class.literals)
    \o <<<<"}">>>>

RECURSIVE FormatClasses(_)
FormatClasses(classes) ==
    IF classes = <<>> THEN <<>>
    ELSE FormatClass(Head(classes)) \o FormatClasses(Tail(classes))

\* impl ImportReceiver for BTreeSet<ClassType>: receive
receive(receiver, ty) == receiver \cup {ty}

\* ImportReceiver::import_all for a type: a class is received, and so are
\* the classes among its arguments.
RECURSIVE import_type(_, _)
import_type(receiver, ty) ==
    IF ty.k = "primitive" THEN receiver
    ELSE LET Arguments[i \in 0..Len(ty.args)] ==
                 IF i = 0 THEN receive(receiver, ty)
                 ELSE import_type(Arguments[i - 1], ty.args[i])
         IN  Arguments[Len(ty.args)]

\* ImportReceiver::import_all for the elements of a file: the types of the
\* fields of its classes.
RECURSIVE import_all(_, _)
import_all(receiver, elements) ==
    IF elements = <<>> THEN receiver
    ELSE LET class == Head(elements)
             Fields[i \in 0..Len(class.fields)] ==
                 IF i = 0 THEN receiver
                 ELSE import_type(Fields[i - 1], class.fields[i].ty)
         IN  import_all(Fields[Len(class.fields)], Tail(elements))

\* ClassType::to_raw
to_raw(ty) == JClass(ty.pkg, ty.name, <<>>)

\* A slip: the classes are imported with their arguments.
Imports_WithArguments(package, elements) ==
    {t \in import_all({}, elements) : t.pkg # "java.lang" /\ t.pkg # package}

\* `imports` of FileSpec::format.
Imports(package, elements) ==
    {to_raw(t) : t \in {r \in import_all({}, elements) :
                            r.pkg # "java.lang" /\ r.pkg # package}}

\* Ord for the package and name of the classes of the model.
ClassOrder ==
    <<<<"java.lang", "Object">>, <<"java.lang", "String">>, <<"java.util", "List">>,
      <<"java.util", "Map">>, <<"java.util", "Optional">>, <<"p", "Bar">>,
      <<"u", "Foo">>>>

ClassRank(ty) == CHOOSE i \in 1..Len(ClassOrder) : ClassOrder[i] = <<ty.pkg, ty.name>>

\* Iteration order of a BTreeSet<ClassType>: by package, then by name (the
\* order of classes that differ in their arguments only is left open).
ClassesInOrder(set) ==
    CHOOSE seq \in [1..Cardinality(set) -> set] :
        /\ \A t \in set : \E i \in 1..Cardinality(set) : seq[i] = t
        /\ \A i, j \in 1..Cardinality(set) :
              i < j => ClassRank(seq[i]) <= ClassRank(seq[j])

\* Section::Spacing: an empty line.
Spacing == <<>>

\* The import section of FileSpec::format: a line for each of `imports`, and
\* spacing, unless `imports` is empty.
ImportSection(package, elements) ==
    LET imports == ClassesInOrder(Imports(package, elements))
    IN  IF imports = <<>> THEN <<>>
        ELSE [i \in 1..Len(imports) |-> <<"import", imports[i].pkg, ".", imports[i].name>>]
             \o <<Spacing>>

\* FileSpec::format of the file spec a process_* function returns: the
\* package line, the imports, then the class, or the interface around its
\* classes.
FormatFile(name, result) ==
    <<<<"package", JavaPackage>>, Spacing>>
    \o ImportSection(JavaPackage, result.classes)
    \o (IF result.kind = "interface"
        THEN <<<<"interface", name, "{">>>> \o FormatClasses(result.classes) \o <<<<"}">>>>
        ELSE FormatClasses(result.classes))

\* The declarations the model draws env.types from.
JavaMembers ==
    {FieldMember("f", Ty("String"), FALSE),
     CodeMember("java", <<"j">>),
     CodeMember("rust", <<"r">>)}

\* How many members a message holds at most.
MaxMembers == 2

MessageDecl(name, members) ==
    [kind |-> "Message", name |-> name, members |-> members,
     value |-> Ty("String"), sub_types |-> <<>>]

TypeDecl(name, value) ==
    [kind |-> "Type", name |-> name, members |-> <<>>, value |-> value,
     sub_types |-> <<>>]

InterfaceDecl(name, members, sub_types) ==
    [kind |-> "Interface", name |-> name, members |-> members,
     value |-> Ty("String"), sub_types |-> sub_types]

JavaDecls(name) ==
    {MessageDecl(name, ms) : ms \in SeqsUpTo(JavaMembers, MaxMembers)}
    \cup {TypeDecl(name, TyOf("Tuple", <<Ty("String"), Ty("I32")>>)),
          TypeDecl(name, TyOf("Tuple", <<Ty("Bytes")>>)),
          TypeDecl(name, Ty("String"))}
    \cup {InterfaceDecl(name, <<FieldMember("f", Ty("String"), TRUE)>>,
            <<[name |-> "S", members |-> <<FieldMember("g", Ty("I64"), FALSE)>>],
              [name |-> "T", members |-> <<>>]>>)}

InitJava ==
    /\ jTypes \in {<<d>> : d \in JavaDecls("A")}
                  \cup {<<d, e>> : d \in JavaDecls("A"), e \in JavaDecls("B")}
    /\ jFailing \in SUBSET {"A", "B", "S"}
    /\ jIdx = 1
    /\ jDisk = <<>>
    /\ jStatus = "Running"
    /\ jErrors = <<>>
    /\ jTrace = <<>>

\* File::create and write_all: what the file holds when, of the lines of out,
\* only the first n reach the disk.
WriteFile(disk, name, out, n) == Put(disk, name, Prefix(out, n))

\* One iteration of the `for` loop of process.  io is the I/O call that fails
\* in it, if any: "mkdir" (create_dir_all), "create" (File::create), "write"
\* (write_all, after n lines).  Every error returns from process at once.
ProcessDecl ==
    /\ jStatus = "Running"
    /\ jIdx <= Len(jTypes)
    /\ \E result \in {process_decl(jTypes[jIdx])} :
       \E out \in {FormatFile(jTypes[jIdx].name, result)} :
       \E io \in {"none", "mkdir", "create", "write"} :
       \E n \in 0..(Len(out) - 1) :
          /\ (io # "write") => (n = 0)
          /\ jTrace' = IF io = "mkdir" THEN jTrace ELSE jTrace \o result.trace
          /\ IF io = "mkdir"
             THEN /\ jStatus' = "Err"
                  /\ jErrors' = <<[kind |-> "io", decl |-> jTypes[jIdx].name]>>
                  /\ UNCHANGED <<jDisk, jIdx>>
             ELSE IF ~result.ok
             THEN /\ jStatus' = "Err"
                  /\ jErrors' = <<[kind |-> result.err, decl |-> jTypes[jIdx].name]>>
                  /\ UNCHANGED <<jDisk, jIdx>>
             ELSE IF io = "create"
             THEN /\ jStatus' = "Err"
                  /\ jErrors' = <<[kind |-> "io", decl |-> jTypes[jIdx].name]>>
                  /\ UNCHANGED <<jDisk, jIdx>>
             ELSE IF io = "write"
             THEN /\ jStatus' = "Err"
                  /\ jErrors' = <<[kind |-> "io", decl |-> jTypes[jIdx].name]>>
                  /\ jDisk' = WriteFile(jDisk, jTypes[jIdx].name, out, n)
                  /\ UNCHANGED jIdx
             ELSE /\ jDisk' = WriteFile(jDisk, jTypes[jIdx].name, out, Len(out))
                  /\ jIdx' = jIdx + 1
                  /\ UNCHANGED <<jStatus, jErrors>>
    /\ UNCHANGED <<jTypes, jFailing>>
    /\ UNCHANGED <<modVars, mergeVars, rustVars, parserVars, restVars>>

\* The loop is over: process returns Ok(()).
ProcessDone ==
    /\ jStatus = "Running"
    /\ jIdx > Len(jTypes)
    /\ jStatus' = "Ok"
    /\ UNCHANGED <<jTypes, jFailing, jIdx, jDisk, jErrors, jTrace>>
    /\ UNCHANGED <<modVars, mergeVars, rustVars, parserVars, restVars>>

NextJava == ProcessDecl \/ ProcessDone

StartJava == InitJava /\ IdleMod /\ IdleMerge /\ IdleRust /\ IdleParser /\ IdleRest

SpecJava == StartJava /\ [][NextJava]_vars

(***************************************************************************)
(* The Rust backend (backend/rust/src/rust_backend.rs)                     *)
(***************************************************************************)
\* RpType.  size is the Option<usize> of an integer type (<<>> is None), name
\* the name of a named type, args the inner type of an array or the key and
\* value of a map.
RpTy(k) == [k |-> k, size |-> <<>>, name |-> "", args |-> <<>>]

RpInt(k, size) == [k |-> k, size |-> size, name |-> "", args |-> <<>>]

RpNamed(name) == [k |-> "Name", size |-> <<>>, name |-> name, args |-> <<>>]

RpOf(k, args) == [k |-> k, size |-> <<>>, name |-> "", args |-> args]

\* The names registered in the environment.
RegisteredNames == {"Foo"}

\* env.lookup(name)
env_lookup(name) == name \in RegisteredNames

ROk(tokens) == [ok |-> TRUE, tokens |-> tokens, pos |-> 0]

RErr(pos) == [ok |-> FALSE, tokens |-> <<>>, pos |-> pos]

\* A slip: the outcome of the lookup is not looked at.
convert_type_id_Unchecked(pos, name) == ROk(<<name>>)

\* RustBackend::convert_type_id, for a name without prefix.
convert_type_id(pos, name) ==
    IF env_lookup(name) THEN ROk(<<name>>) ELSE RErr(pos)

\* A slip: a strict comparison.
FitsIn32_Strict(size) == IF size = <<>> THEN TRUE ELSE size[1] < 32

\* `size.map(|s| s <= 32usize).unwrap_or(true)`
FitsIn32(size) == IF size = <<>> THEN TRUE ELSE size[1] <= 32

\* RustBackend::into_rust_type
RECURSIVE into_rust_type(_, _)
into_rust_type(pos, ty) ==
    CASE ty.k = "String" -> ROk(<<"String">>)
      [] ty.k = "Signed" -> IF FitsIn32(ty.size) THEN ROk(<<"i32">>) ELSE ROk(<<"i64">>)
      [] ty.k = "Unsigned" -> IF FitsIn32(ty.size) THEN ROk(<<"u32">>) ELSE ROk(<<"u64">>)
      [] ty.k = "Float" -> ROk(<<"f32">>)
      [] ty.k = "Double" -> ROk(<<"f64">>)
      [] ty.k = "Boolean" -> ROk(<<"bool">>)
      [] ty.k = "Array" ->
            LET argument == into_rust_type(pos, ty.args[1])
            IN  IF argument.ok THEN ROk(<<"Vec<">> \o argument.tokens \o <<">">>)
                ELSE argument
      [] ty.k = "Name" -> convert_type_id(pos, ty.name)
      [] ty.k = "Map" ->
            LET key   == into_rust_type(pos, ty.args[1])
                value == into_rust_type(pos, ty.args[2])
            IN  IF ~key.ok THEN key
                ELSE IF ~value.ok THEN value
                ELSE ROk(<<"HashMap", "<">> \o key.tokens \o <<", ">> \o value.tokens
                         \o <<">">>)
      [] ty.k = "Any" -> ROk(<<"json", "::", "Value">>)
      [] OTHER -> RErr(pos)

\* Loc<RpField>: ident is the schema identifier, name the name on the wire.
RpField(ident, name, ty, optional, pos) ==
    [ident |-> ident, name |-> name, ty |-> ty, optional |-> optional, pos |-> pos]

\* RustBackend::into_type
into_type(field) ==
    LET stmt == into_rust_type(field.pos, field.ty)
    IN  IF ~stmt.ok THEN stmt
        ELSE IF field.optional THEN ROk(<<"Option<">> \o stmt.tokens \o <<">">>)
        ELSE stmt

\* RustBackend::field_element (no id_converter is set): the lines of a field.
field_element(field) ==
    LET type_spec == into_type(field)
    IN  IF ~type_spec.ok THEN [ok |-> FALSE, lines |-> <<>>, pos |-> type_spec.pos]
        ELSE [ok |-> TRUE, pos |-> 0,
              lines |->
                (IF field.optional
                 THEN <<<<"#[serde(skip_serializing_if=\"Option::is_none\")]">>>>
                 ELSE <<>>)
                \o (IF field.name # field.ident
                    THEN <<<<"#[serde(rename = ", field.name, ")]">>>>
                    ELSE <<>>)
                \o <<<<field.ident, ": ">> \o type_spec.tokens \o <<",">>>>]

\* The context of the Rust emitter.
RUST_CONTEXT == "rust"

\* codes.for_context(context): the code blocks attached for the context, in
\* the order they were attached.
for_context(codes, context) == SelectSeq(codes, LAMBDA c : c.context = context)

\* `for code in body.codes.for_context(RUST_CONTEXT) { spec.push(code.lines) }`:
\* every line of every block, one verbatim line each.
RECURSIVE PushCodes(_)
PushCodes(codes) ==
    IF codes = <<>> THEN <<>>
    ELSE [k \in 1..Len(Head(codes).lines) |-> <<Head(codes).lines[k]>>]
         \o PushCodes(Tail(codes))

\* An item pushed to out.0: its name, attribute lines and body lines.
RustItem(name, attributes, body) ==
    [name |-> name, attributes |-> attributes, body |-> body]

RustOk(out) == [ok |-> TRUE, out |-> out, pos |-> 0]

RustErr(out, pos) == [ok |-> FALSE, out |-> out, pos |-> pos]

\* The loop `for field in fields { ... into_type(field)? }` of process_tuple,
\* from field i on: the types, joined by ", ".
RECURSIVE TupleFields(_, _, _)
TupleFields(acc, fields, i) ==
    IF i > Len(fields) THEN ROk(acc)
    ELSE LET stmt == into_type(fields[i])
         IN  IF ~stmt.ok THEN stmt
             ELSE TupleFields(acc \o (IF i > 1 THEN <<", ">> ELSE <<>>) \o stmt.tokens,
                              fields, i + 1)

\* RustBackend::process_tuple
process_tuple(out, body) ==
    LET fields == TupleFields(<<>>, body.fields, 1)
    IN  IF ~fields.ok THEN RustErr(out, fields.pos)
        ELSE RustOk(Append(out,
               RustItem(body.name, <<<<"#[derive(Serialize, Deserialize, Debug)]">>>>,
                        <<<<"struct ", body.name, "(">> \o fields.tokens \o <<");">>>>)))

\* RustBackend::process_enum
process_enum(out, body) ==
    RustOk(Append(out,
        RustItem(body.name, <<>>, PushCodes(for_context(body.codes, RUST_CONTEXT)))))

\* The loop `for field in fields { ... field_element(field)? }`, from field i on.
RECURSIVE FieldElements(_, _, _)
FieldElements(acc, fields, i) ==
    IF i > Len(fields) THEN [ok |-> TRUE, lines |-> acc, pos |-> 0]
    ELSE LET element == field_element(fields[i])
         IN  IF ~element.ok THEN element
             ELSE FieldElements(acc \o element.lines, fields, i + 1)

\* RustBackend::process_type
process_type_rust(out, body) ==
    LET fields == FieldElements(<<>>, body.fields, 1)
    IN  IF ~fields.ok THEN RustErr(out, fields.pos)
        ELSE RustOk(Append(out,
               RustItem(body.name, <<<<"#[derive(Serialize, Deserialize, Debug)]">>>>,
                        fields.lines \o PushCodes(for_context(body.codes, RUST_CONTEXT)))))

\* A slip: the sub-type's own fields come before the shared ones.
RECURSIVE SubTypeElements_OwnFieldsFirst(_, _, _)
SubTypeElements_OwnFieldsFirst(acc, body, i) ==
    IF i > Len(body.sub_types) THEN [ok |-> TRUE, lines |-> acc, pos |-> 0]
    ELSE LET sub_type == body.sub_types[i]
             fields   == FieldElements(<<>>, sub_type.fields \o body.fields, 1)
         IN  IF ~fields.ok THEN fields
             ELSE SubTypeElements_OwnFieldsFirst(
                    acc
                    \o (IF sub_type.names # <<>>
                        THEN <<<<"#[serde(rename = ", sub_type.names[1], ")]">>>>
                        ELSE <<>>)
                    \o <<<<sub_type.name, " {">>>>
                    \o fields.lines
                    \o <<<<"},">>>>,
                    body, i + 1)

\* The loop of process_interface over body.sub_types, from sub-type i on.
RECURSIVE SubTypeElements(_, _, _)
SubTypeElements(acc, body, i) ==
    IF i > Len(body.sub_types) THEN [ok |-> TRUE, lines |-> acc, pos |-> 0]
    ELSE LET sub_type == body.sub_types[i]
             fields   == FieldElements(<<>>, body.fields \o sub_type.fields, 1)
         IN  IF ~fields.ok THEN fields
             ELSE SubTypeElements(
                    acc
                    \o (IF sub_type.names # <<>>
                        THEN <<<<"#[serde(rename = ", sub_type.names[1], ")]">>>>
                        ELSE <<>>)
                    \o <<<<sub_type.name, " {">>>>
                    \o fields.lines
                    \o <<<<"},">>>>,
                    body, i + 1)

\* RustBackend::process_interface
process_interface_rust(out, body) ==
    LET codes     == PushCodes(for_context(body.codes, RUST_CONTEXT))
        sub_types == SubTypeElements(<<>>, body, 1)
    IN  IF ~sub_types.ok THEN RustErr(out, sub_types.pos)
        ELSE RustOk(Append(out,
               RustItem(body.name,
                        <<<<"#[derive(Serialize, Deserialize, Debug)]">>,
                          <<"#[serde(tag = \"type\")]">>>>,
                        codes \o sub_types.lines)))

\* The fields the model draws declaration bodies from.
RustFields ==
    {RpField("x", "x", RpTy("String"), FALSE, 10),
     RpField("y", "why", RpInt("Unsigned", <<>>), TRUE, 11),
     RpField("z", "z", RpTy("Bytes"), FALSE, 12)}

\* How many fields a body holds at most.
MaxFields == 2

RustBody(kind, fields, codes, sub_types) ==
    [kind |-> kind, name |-> "Decl", fields |-> fields, codes |-> codes,
     sub_types |-> sub_types]

RustSubTypes ==
    {<<>>,
     <<[name |-> "S", names |-> <<"s">>,
        fields |-> <<RpField("y", "why", RpInt("Unsigned", <<>>), TRUE, 11)>>]>>,
     <<[name |-> "S", names |-> <<>>, fields |-> <<>>],
       [name |-> "T", names |-> <<>>,
        fields |-> <<RpField("z", "z", RpTy("Bytes"), FALSE, 12)>>]>>,
     <<[name |-> "S", names |-> <<"s">>,
        fields |-> <<RpField("y", "why", RpInt("Unsigned", <<>>), TRUE, 11),
                     RpField("x", "x", RpTy("String"), FALSE, 10)>>],
       [name |-> "T", names |-> <<>>,
        fields |-> <<RpField("x", "x", RpTy("String"), FALSE, 13)>>]>>}

RustBodies ==
    {RustBody(kind, fields, codes, <<>>) :
        kind \in {"Tuple", "Type"},
        fields \in SeqsUpTo(RustFields, MaxFields),
        codes \in CodeLists}
    \cup {RustBody("Enum", <<>>, codes, <<>>) : codes \in CodeLists}
    \cup {RustBody("Interface", fields, codes, sub_types) :
            fields \in SeqsUpTo(RustFields, 1),
            codes \in CodeLists,
            sub_types \in RustSubTypes}

InitRust ==
    /\ rBody \in RustBodies
    /\ rOut = <<>>
    /\ rResult = "None"
    /\ rPos = 0

\* One call of a process_* function on rBody.
RustCall(kind, result) ==
    /\ rResult = "None"
    /\ rBody.kind = kind
    /\ rOut' = result.out
    /\ rResult' = IF result.ok THEN "Ok" ELSE "Err"
    /\ rPos' = result.pos
    /\ UNCHANGED rBody
    /\ UNCHANGED <<modVars, mergeVars, javaVars, parserVars, restVars>>

ProcessTuple == RustCall("Tuple", process_tuple(rOut, rBody))

ProcessEnum == RustCall("Enum", process_enum(rOut, rBody))

ProcessType == RustCall("Type", process_type_rust(rOut, rBody))

ProcessInterface == RustCall("Interface", process_interface_rust(rOut, rBody))

NextRust == ProcessTuple \/ ProcessEnum \/ ProcessType \/ ProcessInterface

StartRust == InitRust /\ IdleMod /\ IdleMerge /\ IdleJava /\ IdleParser /\ IdleRest

SpecRust == StartRust /\ [][NextRust]_vars

(***************************************************************************)
(* The parser's text functions (src/parser/parser.rs).  Text is a sequence *)
(* of code points.                                                         *)
(***************************************************************************)
\* The code points of the characters the functions name.
Chr ==
    [bell |-> 7, backspace |-> 8, tab |-> 9, newline |-> 10, formfeed |-> 12,
     return |-> 13, dc4 |-> 20, space |-> 32, quote |-> 34, apostrophe |-> 39,
     slash |-> 47, zero |-> 48, nine |-> 57, upperA |-> 65, upperF |-> 70,
     backslash |-> 92, a |-> 97, b |-> 98, f |-> 102, n |-> 110, r |-> 114, t |-> 116,
     u |-> 117, x |-> 120]

\* is_indent
is_indent(c) == c = Chr.space \/ c = Chr.tab

\* find_indent: the number of characters before the first that is not an
\* indentation character, None (<<>>) when there is none.
find_indent(input) ==
    LET found == {i \in 1..Len(input) : ~is_indent(input[i])}
    IN  IF found = {} THEN <<>>
        ELSE <<(CHOOSE i \in found : \A j \in found : i <= j) - 1>>

\* str::lines: the text between line feeds; a final line feed ends the last
\* line and starts no empty one.
RECURSIVE SplitLines(_, _)
SplitLines(input, current) ==
    IF input = <<>> THEN (IF current = <<>> THEN <<>> ELSE <<current>>)
    ELSE IF Head(input) = Chr.newline
         THEN <<current>> \o SplitLines(Tail(input), <<>>)
         ELSE SplitLines(Tail(input), Append(current, Head(input)))

Lines(input) == SplitLines(input, <<>>)

\* The loop of code_block_indent over the enumerated lines, from line
\* line_no (counted from 0) on.
RECURSIVE IndentLoop(_, _, _)
IndentLoop(st, lines, line_no) ==
    IF line_no >= Len(lines) THEN st
    ELSE LET current == find_indent(lines[line_no + 1])
         IN  IF current # <<>>
             THEN IndentLoop(
                    [st EXCEPT !.end = line_no + 1,
                               !.indent = IF st.indent = <<>> \/ st.indent[1] > current[1]
                                          THEN current ELSE st.indent,
                               !.first_line = TRUE],
                    lines, line_no + 1)
             ELSE IndentLoop(
                    IF ~st.first_line THEN [st EXCEPT !.start = st.start + 1] ELSE st,
                    lines, line_no + 1)

\* code_block_indent: None (<<>>) or Some((indent, start, end - start)).
code_block_indent(input) ==
    LET st == IndentLoop([indent |-> <<>>, start |-> 0, end |-> 0, first_line |-> FALSE],
                         Lines(input), 0)
    IN  IF st.indent = <<>> THEN <<>>
        ELSE <<[indent |-> st.indent[1], start |-> st.start, len |-> st.end - st.start]>>

\* A slip: take without the skip.
SkipTake_NoSkip(lines, start, len) == SubSeq(lines, 1, len)

\* `.skip(empty_start).take(len)`
SkipTake(lines, start, len) ==
    SubSeq(lines, start + 1, IF start + len <= Len(lines) THEN start + len ELSE Len(lines))

\* A slip: every leading indentation character goes, as with trim_left.
StripLine_TrimLeft(line, indent) ==
    IF find_indent(line) = <<>> THEN <<>>
    ELSE SubSeq(line, find_indent(line)[1] + 1, Len(line))

\* The closure of strip_code_block: the line without its first `indent`
\* characters, or the line itself when it is shorter.
StripLine(line, indent) ==
    IF Len(line) < indent THEN line ELSE SubSeq(line, indent + 1, Len(line))

\* strip_code_block
strip_code_block(input) ==
    LET found == code_block_indent(input)
    IN  IF found # <<>>
        THEN LET kept == SkipTake(Lines(input), found[1].start, found[1].len)
             IN  [i \in 1..Len(kept) |-> StripLine(kept[i], found[1].indent)]
        ELSE Lines(input)

\* The characters code-block content is drawn from: the two indentation
\* characters, a letter and the line feed; and its longest length.
CodeChars == {Chr.space, Chr.tab, Chr.x, Chr.newline}

MaxText == 7

InitStrip ==
    /\ sInput \in SeqsUpTo(CodeChars, MaxText)
    /\ sResult = [done |-> FALSE, lines |-> <<>>]

StripCodeBlock ==
    /\ ~sResult.done
    /\ sResult' = [done |-> TRUE, lines |-> strip_code_block(sInput)]
    /\ UNCHANGED <<sInput, dItems, dInput, dResult>>
    /\ UNCHANGED <<modVars, mergeVars, javaVars, rustVars, restVars>>

NextStrip == StripCodeBlock

StartStrip == InitStrip /\ IdleDecode /\ IdleMod /\ IdleMerge /\ IdleJava /\ IdleRust /\ IdleRest

SpecStrip == StartStrip /\ [][NextStrip]_vars

\* u32::from_str_radix(c, 16) of a one-character string: None (<<>>) when the
\* character is no hexadecimal digit.
HexValue(c) ==
    IF c >= Chr.zero /\ c <= Chr.nine THEN <<c - Chr.zero>>
    ELSE IF c >= Chr.a /\ c <= Chr.f THEN <<c - Chr.a + 10>>
    ELSE IF c >= Chr.upperA /\ c <= Chr.upperF THEN <<c - Chr.upperA + 10>>
    ELSE <<>>

\* char::from_u32: every code point but the surrogates, up to 0x10FFFF.
IsChar(code) == code >= 0 /\ code <= 1114111 /\ ~(code >= 55296 /\ code <= 57343)

\* The loop of decode_unicode4 from digit x on: res += c << (4 * (3 - x)).
RECURSIVE Unicode4Loop(_, _, _)
Unicode4Loop(it, res, x) ==
    IF x = 4 THEN [ok |-> TRUE, res |-> res, it |-> it]
    ELSE IF it = <<>> THEN [ok |-> FALSE, res |-> res, it |-> it]
    ELSE LET c == HexValue(Head(it))
         IN  IF c = <<>> THEN [ok |-> FALSE, res |-> res, it |-> Tail(it)]
             ELSE Unicode4Loop(Tail(it), res + c[1] * (2 ^ (4 * (3 - x))), x + 1)

\* decode_unicode4: the character and the iterator after it.
decode_unicode4(it) ==
    LET r == Unicode4Loop(it, 0, 0)
    IN  IF r.ok /\ IsChar(r.res) THEN r ELSE [r EXCEPT !.ok = FALSE]

\* The loop of decode_escaped_string: it is the iterator, out the output.
RECURSIVE DecodeLoop(_, _)
DecodeLoop(it, out) ==
    IF it = <<>> THEN [done |-> TRUE, ok |-> TRUE, err |-> "", out |-> out]
    ELSE LET c    == Head(it)
             rest == Tail(it)
         IN  IF rest = <<>>
             THEN \* strip end quote
                  [done |-> TRUE, ok |-> TRUE, err |-> "", out |-> out]
             ELSE IF c = Chr.backslash
             THEN LET e == Head(rest)
                  IN  CASE e = Chr.n -> DecodeLoop(Tail(rest), Append(out, Chr.newline))
                        [] e = Chr.r -> DecodeLoop(Tail(rest), Append(out, Chr.return))
                        [] e = Chr.t -> DecodeLoop(Tail(rest), Append(out, Chr.tab))
                        [] e = Chr.u ->
                              LET decoded == decode_unicode4(Tail(rest))
                              IN  IF decoded.ok
                                  THEN DecodeLoop(decoded.it, Append(out, decoded.res))
                                  ELSE [done |-> TRUE, ok |-> FALSE,
                                        err |-> "unicode", out |-> <<>>]
                        [] OTHER -> [done |-> TRUE, ok |-> FALSE,
                                     err |-> "InvalidEscape", out |-> <<>>]
             ELSE DecodeLoop(rest, Append(out, c))

\* decode_escaped_string: `input.chars().skip(1)` drops the opening quote.
decode_escaped_string(input) ==
    DecodeLoop(IF input = <<>> THEN <<>> ELSE Tail(input), <<>>)

\* The grammar's string rule: a quote, then escapes and characters other
\* than quote and backslash, then a quote.  An item is one character (c) or
\* one escape: a backslash and c, which is one of " \ / n r t, or a backslash,
\* u and the four hexadecimal digits hex.
PlainItem(c) == [kind |-> "plain", c |-> c, hex |-> <<>>]

EscapeItem(c) == [kind |-> "escape", c |-> c, hex |-> <<>>]

UnicodeItem(hex) == [kind |-> "unicode", c |-> Chr.u, hex |-> hex]

StringItems ==
    {PlainItem(Chr.x), PlainItem(Chr.slash)}
    \cup {EscapeItem(c) : c \in {Chr.quote, Chr.backslash, Chr.slash, Chr.n, Chr.r, Chr.t}}
    \cup {UnicodeItem(<<Chr.zero, Chr.zero, Chr.zero + 4, Chr.zero + 1>>),
          UnicodeItem(<<Chr.zero, Chr.zero, Chr.a + 4, Chr.nine>>)}

\* How many items a string literal holds at most.
MaxItems == 2

ItemText(item) ==
    CASE item.kind = "plain" -> <<item.c>>
      [] item.kind = "escape" -> <<Chr.backslash, item.c>>
      [] item.kind = "unicode" -> <<Chr.backslash, Chr.u>> \o item.hex

RECURSIVE ItemsText(_)
ItemsText(items) ==
    IF items = <<>> THEN <<>> ELSE ItemText(Head(items)) \o ItemsText(Tail(items))

StringLiteral(items) == <<Chr.quote>> \o ItemsText(items) \o <<Chr.quote>>

InitDecode ==
    /\ dItems \in SeqsUpTo(StringItems, MaxItems)
    /\ dInput = StringLiteral(dItems)
    /\ dResult = [done |-> FALSE, ok |-> FALSE, err |-> "", out |-> <<>>]

DecodeString ==
    /\ ~dResult.done
    /\ dResult' = decode_escaped_string(dInput)
    /\ UNCHANGED <<dItems, dInput, sInput, sResult>>
    /\ UNCHANGED <<modVars, mergeVars, javaVars, rustVars, restVars>>

NextDecode == DecodeString

StartDecode == InitDecode /\ IdleStrip /\ IdleMod /\ IdleMerge /\ IdleJava /\ IdleRust /\ IdleRest

SpecDecode == StartDecode /\ [][NextDecode]_vars

(***************************************************************************)
(* A type on its way from the schema text to the Rust backend:             *)
(* _type_spec (src/parser/parser.rs) and into_rust_type                    *)
(* (backend/rust/src/rust_backend.rs).                                     *)
(***************************************************************************)
\* A token of the queue: the rule that matched, and for `unsigned` and
\* custom_type the text it matched.
Tok(rule) == [rule |-> rule, size |-> 0, name |-> ""]

TokUnsigned(size) == [rule |-> "unsigned", size |-> size, name |-> ""]

TokCustom(name) == [rule |-> "custom_type", size |-> 0, name |-> name]

\* The rules of the types without parts, and the RpType each stands for.
ScalarRules ==
    [double_type |-> "Double", float_type |-> "Float", boolean_type |-> "Boolean",
     string_type |-> "String", bytes_type |-> "Bytes", any_type |-> "Any"]

POk(ty, rest) == [ok |-> TRUE, ty |-> ty, rest |-> rest]

PErr == [ok |-> FALSE, ty |-> RpTy("None"), rest |-> <<>>]

IsTok(queue, i, rule) == Len(queue) >= i /\ queue[i].rule = rule

Drop(queue, n) == SubSeq(queue, n + 1, Len(queue))

\* _type_spec: the type at the head of the queue and the queue after it.
RECURSIVE type_spec(_)
type_spec(queue) ==
    IF queue = <<>> THEN PErr
    ELSE LET rule == Head(queue).rule
         IN  CASE rule \in DOMAIN ScalarRules -> POk(RpTy(ScalarRules[rule]), Tail(queue))
               [] rule \in {"signed_type", "unsigned_type"} ->
                     LET k == IF rule = "signed_type" THEN "Signed" ELSE "Unsigned"
                     IN  IF IsTok(queue, 2, "forward_slash") /\ IsTok(queue, 3, "unsigned")
                         THEN POk(RpInt(k, <<queue[3].size>>), Drop(queue, 3))
                         ELSE POk(RpInt(k, <<>>), Tail(queue))
               [] rule = "array_type" ->
                     IF ~IsTok(queue, 2, "bracket_start") THEN PErr
                     ELSE LET argument == type_spec(Drop(queue, 2))
                          IN  IF argument.ok /\ IsTok(argument.rest, 1, "bracket_end")
                              THEN POk(RpOf("Array", <<argument.ty>>), Tail(argument.rest))
                              ELSE PErr
               [] rule = "map_type" ->
                     IF ~IsTok(queue, 2, "left_curly") THEN PErr
                     ELSE LET key == type_spec(Drop(queue, 2))
                          IN  IF ~(key.ok /\ IsTok(key.rest, 1, "colon")) THEN PErr
                              ELSE LET value == type_spec(Tail(key.rest))
                                   IN  IF value.ok /\ IsTok(value.rest, 1, "right_curly")
                                       THEN POk(RpOf("Map", <<key.ty, value.ty>>),
                                                Tail(value.rest))
                                       ELSE PErr
               [] rule = "custom_type" -> POk(RpNamed(Head(queue).name), Tail(queue))
               [] OTHER -> PErr

\* The bit widths and type names written in the schemas of the model.
TypeBits == {32, 33, 123}

TypeNames == {"Foo", "Bar"}

\* The queues of the types without parts.
LeafQueues ==
    {<<Tok(rule)>> : rule \in DOMAIN ScalarRules}
    \cup {<<Tok(rule)>> : rule \in {"signed_type", "unsigned_type"}}
    \cup {<<Tok(rule), Tok("forward_slash"), TokUnsigned(size)>> :
            rule \in {"signed_type", "unsigned_type"}, size \in TypeBits}
    \cup {<<TokCustom(name)>> : name \in TypeNames}

\* The queues of the type_specs built from n types.
RECURSIVE TypeQueues(_)
TypeQueues(n) ==
    IF n = 1 THEN LeafQueues
    ELSE {<<Tok("array_type"), Tok("bracket_start")>> \o q \o <<Tok("bracket_end")>> :
            q \in TypeQueues(n - 1)}
         \cup UNION {
            {<<Tok("map_type"), Tok("left_curly")>> \o key \o <<Tok("colon")>> \o value
                \o <<Tok("right_curly")>> :
                key \in TypeQueues(i), value \in TypeQueues(n - 1 - i)} :
            i \in 1..(n - 2)}

\* How many types a type_spec is built from at most.
MaxTypeNodes == 4

InitType ==
    /\ tQueue \in UNION {TypeQueues(n) : n \in 1..MaxTypeNodes}
    /\ tPos \in {10, 11}
    /\ tParsed = <<>>
    /\ tResult = <<>>

\* The parser reads the type.
ParseTypeSpec ==
    /\ tParsed = <<>>
    /\ tParsed' = <<type_spec(tQueue)>>
    /\ UNCHANGED <<tQueue, tPos, tResult>>
    /\ UNCHANGED <<modVars, mergeVars, javaVars, rustVars, parserVars, typeOthers>>

\* The Rust backend converts the type of a field at tPos.
IntoRustType ==
    /\ tParsed # <<>> /\ tParsed[1].ok
    /\ tResult = <<>>
    /\ tResult' = <<into_rust_type(tPos, tParsed[1].ty)>>
    /\ UNCHANGED <<tQueue, tPos, tParsed>>
    /\ UNCHANGED <<modVars, mergeVars, javaVars, rustVars, parserVars, typeOthers>>

NextType == ParseTypeSpec \/ IntoRustType

StartType ==
    InitType /\ IdleMod /\ IdleMerge /\ IdleJava /\ IdleRust /\ IdleParser /\ IdleTypeOthers

SpecType == StartType /\ [][NextType]_vars

(***************************************************************************)
(* Registered entities (core/src/rp_registered.rs)                         *)
(***************************************************************************)
\* What an Rc points to: a body (RpTypeBody, RpInterfaceBody, ...), or the
\* sub-type or variant of one.  ptr tells one allocation from another.
RegBody(ptr, name, fields) == [ptr |-> ptr, name |-> name, fields |-> fields]

NoBody == RegBody(0, "", <<>>)

\* RpRegistered: Type, Interface, Enum, Tuple and Service hold a body; SubType
\* and EnumConstant hold the parent's body and their own part.
Registered(kind, body, part) == [kind |-> kind, body |-> body, part |-> part]

RegOk(call, fields, found) ==
    [call |-> call, ok |-> TRUE, err |-> "", fields |-> fields, found |-> found]

RegErr(call, err) ==
    [call |-> call, ok |-> FALSE, err |-> err, fields |-> <<>>, found |-> <<>>]

\* A slip: the parent's fields are left out.
fields_OwnOnly(self) ==
    CASE self.kind \in {"Type", "Tuple"} -> RegOk("fields", self.body.fields, <<>>)
      [] self.kind = "SubType" -> RegOk("fields", self.part.fields, <<>>)
      [] OTHER -> RegErr("fields", "has no fields")

\* RpRegistered::fields
fields(self) ==
    CASE self.kind = "Type" -> RegOk("fields", self.body.fields, <<>>)
      [] self.kind = "Tuple" -> RegOk("fields", self.body.fields, <<>>)
      [] self.kind = "SubType" ->
            RegOk("fields", self.body.fields \o self.part.fields, <<>>)
      [] OTHER -> RegErr("fields", "has no fields")

\* The loop of field_by_ident over the fields, from field i on.
RECURSIVE FindIdent(_, _, _)
FindIdent(all, ident, i) ==
    IF i > Len(all) THEN <<>>
    ELSE IF all[i].ident = ident THEN <<all[i]>>
    ELSE FindIdent(all, ident, i + 1)

\* RpRegistered::field_by_ident
field_by_ident(self, ident) ==
    LET all == fields(self)
    IN  IF ~all.ok THEN RegErr("field_by_ident", all.err)
        ELSE RegOk("field_by_ident", <<>>, FindIdent(all.fields, ident, 1))

\* The registered entities of the model.
Registereds ==
    {Registered(kind, RegBody(1, "A", body_fields), NoBody) :
        kind \in {"Type", "Tuple", "Interface"},
        body_fields \in SeqsUpTo(RustFields, MaxFields)}
    \cup {Registered(kind, RegBody(1, "A", <<>>), NoBody) : kind \in {"Enum", "Service"}}
    \cup {Registered("EnumConstant", RegBody(1, "A", <<>>), RegBody(2, "V", <<>>))}
    \cup {Registered("SubType", RegBody(1, "A", body_fields), RegBody(2, "S", own)) :
            body_fields \in SeqsUpTo(RustFields, MaxFields),
            own \in SeqsUpTo(RustFields, MaxFields)}

\* The identifiers looked up.
Idents == {"x", "y", "z", "w"}

InitReg ==
    /\ regSelf \in Registereds
    /\ regOut = [call |-> "none", ok |-> FALSE, err |-> "", fields |-> <<>>, found |-> <<>>]

Fields ==
    /\ regOut.call = "none"
    /\ regOut' = fields(regSelf)
    /\ UNCHANGED regSelf
    /\ UNCHANGED <<modVars, mergeVars, javaVars, rustVars, parserVars, regOthers>>

FieldByIdent ==
    /\ regOut.call = "none"
    /\ \E ident \in Idents : regOut' = field_by_ident(regSelf, ident)
    /\ UNCHANGED regSelf
    /\ UNCHANGED <<modVars, mergeVars, javaVars, rustVars, parserVars, regOthers>>

NextReg == Fields \/ FieldByIdent

StartReg ==
    InitReg /\ IdleMod /\ IdleMerge /\ IdleJava /\ IdleRust /\ IdleParser /\ IdleRegOthers

SpecReg == StartReg /\ [][NextReg]_vars

(***************************************************************************)
(* Declarations and their registrations (core/src/rp_decl.rs)              *)
(***************************************************************************)
\* What an Rc of the declaration tree points to is told apart by where it
\* sits: ptr is the way from the root, a step being the collection entered
\* (decls, sub_types, variants) and the index in it.
Step(in, at) == [in |-> in, at |-> at]

\* RpDecl: the body of a Type, Tuple, Interface, Enum or Service with its
\* sub-types (Interface), variants (Enum) and nested declarations.
Decl(kind, ptr, sub_types, variants, decls) ==
    [kind |-> kind, ptr |-> ptr, sub_types |-> sub_types, variants |-> variants,
     decls |-> decls]

\* RpSubType and RpEnumVariant
SubType(ptr, decls) == [ptr |-> ptr, decls |-> decls]

Variant(ptr) == [ptr |-> ptr]

\* RpReg: the registration of a declaration, or of a sub-type or variant
\* (part) of one.
RpReg(kind, ptr, part) == [kind |-> kind, ptr |-> ptr, part |-> part]

RECURSIVE Flatten(_)
Flatten(seqs) == IF seqs = <<>> THEN <<>> ELSE Head(seqs) \o Flatten(Tail(seqs))

\* A slip: the declarations nested in sub-types are forgotten.
RECURSIVE into_reg_WithoutSubTypeDecls(_)
into_reg_WithoutSubTypeDecls(self) ==
    LET own ==
          CASE self.kind = "Interface" ->
                  [i \in 1..Len(self.sub_types) |->
                      RpReg("SubType", self.ptr, self.sub_types[i].ptr)]
                  \o <<RpReg("Interface", self.ptr, <<>>)>>
            [] self.kind = "Enum" ->
                  [i \in 1..Len(self.variants) |->
                      RpReg("EnumVariant", self.ptr, self.variants[i].ptr)]
                  \o <<RpReg("Enum", self.ptr, <<>>)>>
            [] OTHER -> <<RpReg(self.kind, self.ptr, <<>>)>>
    IN  own \o Flatten([i \in 1..Len(self.decls) |->
                            into_reg_WithoutSubTypeDecls(self.decls[i])])

\* RpDecl::into_reg
RECURSIVE into_reg(_)
into_reg(self) ==
    LET nested(decls) == Flatten([i \in 1..Len(decls) |-> into_reg(decls[i])])
        own ==
          CASE self.kind = "Type" -> <<RpReg("Type", self.ptr, <<>>)>>
            [] self.kind = "Interface" ->
                  Flatten([i \in 1..Len(self.sub_types) |->
                      <<RpReg("SubType", self.ptr, self.sub_types[i].ptr)>>
                      \o nested(self.sub_types[i].decls)])
                  \o <<RpReg("Interface", self.ptr, <<>>)>>
            [] self.kind = "Enum" ->
                  [i \in 1..Len(self.variants) |->
                      RpReg("EnumVariant", self.ptr, self.variants[i].ptr)]
                  \o <<RpReg("Enum", self.ptr, <<>>)>>
            [] self.kind = "Tuple" -> <<RpReg("Tuple", self.ptr, <<>>)>>
            [] self.kind = "Service" -> <<RpReg("Service", self.ptr, <<>>)>>
    IN  own \o nested(self.decls)

\* The declaration trees built from n declarations, sub-types and variants,
\* rooted at ptr; DeclLists and SubTypeLists are the lists of nested
\* declarations and of sub-types built from m of them, filled from index
\* `at` on.
RECURSIVE DeclTrees(_, _), DeclLists(_, _, _), SubTypeLists(_, _, _)
DeclTrees(n, ptr) ==
    {Decl(kind, ptr, <<>>, <<>>, decls) :
        kind \in {"Type", "Tuple", "Service"}, decls \in DeclLists(n - 1, ptr, 1)}
    \cup UNION {
        {Decl("Enum", ptr, <<>>, [i \in 1..v |-> Variant(Append(ptr, Step("variants", i)))],
              decls) : decls \in DeclLists(n - 1 - v, ptr, 1)} :
        v \in 0..(n - 1)}
    \cup UNION {
        {Decl("Interface", ptr, sub_types, <<>>, decls) :
            sub_types \in SubTypeLists(k, ptr, 1), decls \in DeclLists(n - 1 - k, ptr, 1)} :
        k \in 0..(n - 1)}

DeclLists(m, ptr, at) ==
    IF m = 0 THEN {<<>>}
    ELSE UNION {
        {<<decl>> \o more :
            decl \in DeclTrees(k, Append(ptr, Step("decls", at))),
            more \in DeclLists(m - k, ptr, at + 1)} :
        k \in 1..m}

SubTypeLists(m, ptr, at) ==
    IF m = 0 THEN {<<>>}
    ELSE UNION {
        {<<SubType(Append(ptr, Step("sub_types", at)), decls)>> \o more :
            decls \in DeclLists(k - 1, Append(ptr, Step("sub_types", at)), 1),
            more \in SubTypeLists(m - k, ptr, at + 1)} :
        k \in 1..m}

\* How many declarations, sub-types and variants a tree holds at most.
MaxDeclNodes == 4

InitDecl ==
    /\ declSize \in 1..MaxDeclNodes
    /\ declSelf \in DeclTrees(declSize, <<>>)
    /\ declRegs = <<>>

IntoReg ==
    /\ declRegs = <<>>
    /\ declRegs' = <<into_reg(declSelf)>>
    /\ UNCHANGED <<declSelf, declSize>>
    /\ UNCHANGED <<modVars, mergeVars, javaVars, rustVars, parserVars, declOthers>>

NextDecl == IntoReg

StartDecl ==
    InitDecl /\ IdleMod /\ IdleMerge /\ IdleJava /\ IdleRust /\ IdleParser /\ IdleDeclOthers

SpecDecl == StartDecl /\ [][NextDecl]_vars

(***************************************************************************)
(* The Builder listener (backend/java/src/builder.rs)                      *)
(***************************************************************************)
\* Java: a type, Optional or not.
BType(name, optional) == [name |-> name, optional |-> optional]

\* Field: type, variable, modifiers and initializer.
BField(ty, var, modifiers, initializer) ==
    [ty |-> ty, var |-> var, modifiers |-> modifiers, initializer |-> initializer]

\* Method: name, return type, arguments (type and variable each) and body lines.
BMethod(name, returns, arguments, body) ==
    [name |-> name, returns |-> returns, arguments |-> arguments, body |-> body]

\* An element of a class body: a nested class, or (kind "literal") anything
\* else pushed there, named by its first token.
BElement(kind, name, modifiers, its_fields, methods) ==
    [kind |-> kind, name |-> name, modifiers |-> modifiers, fields |-> its_fields,
     methods |-> methods]

\* Class: the spec of the event.
BClass(name, its_fields, body) == [name |-> name, fields |-> its_fields, body |-> body]

\* Module::builder_field: the field as an Optional, private, initially empty.
builder_field(field) ==
    BField(BType(field.ty.name, TRUE), field.var, <<"private">>, <<"Optional", ".empty()">>)

\* Module::setter_method: takes the value, stores it as Optional.of(value)
\* and returns the builder.
setter_method(field) ==
    BMethod(field.var, "Builder", <<[ty |-> BType(field.ty.name, FALSE), var |-> field.var]>>,
            <<<<"this.", field.var, " = ", "Optional", ".of(", field.var, ")", ";">>,
              <<"return this;">>>>)

\* The loop of class_added over e.spec.fields, from field i on: the fields
\* and setters of the builder, the assignments and the constructor arguments
\* of build.
RECURSIVE BuilderParts(_, _, _)
BuilderParts(acc, its_fields, i) ==
    IF i > Len(its_fields) THEN acc
    ELSE LET field == its_fields[i]
             value == IF ~field.ty.optional
                      THEN <<"this.", field.var, ".orElseThrow(() -> ", "new ",
                             "RuntimeException", "(", "is required", ")", ")">>
                      ELSE <<"this.", field.var>>
             assign == <<"final ", field.ty.name, " ", field.var, " = ">> \o value \o <<";">>
         IN  BuilderParts(
                [fields |-> Append(acc.fields, builder_field(field)),
                 methods |-> Append(acc.methods, setter_method(field)),
                 build_variable_assign |-> Append(acc.build_variable_assign, assign),
                 build_constructor_arguments |-> Append(acc.build_constructor_arguments,
                                                        field.var)],
                its_fields, i + 1)

\* The Builder class class_added makes for a spec.
BuilderClass(spec) ==
    LET parts == BuilderParts([fields |-> <<>>, methods |-> <<>>,
                               build_variable_assign |-> <<>>,
                               build_constructor_arguments |-> <<>>], spec.fields, 1)
        build == BMethod("build", spec.name, <<>>,
                         parts.build_variable_assign
                         \o <<<<"return new ", spec.name, "(">>
                              \o parts.build_constructor_arguments \o <<");">>>>)
    IN  BElement("class", "Builder", <<"public", "static">>, parts.fields,
                 Append(parts.methods, build))

\* A slip: the body is set to the builder instead of the builder pushed.
builder_class_added_Replacing(spec) ==
    [ok |-> TRUE, spec |-> [spec EXCEPT !.body = <<BuilderClass(spec)>>]]

\* Listeners::class_added of Module: the outcome and e.spec after the call.
builder_class_added(spec) ==
    [ok |-> TRUE, spec |-> [spec EXCEPT !.body = Append(@, BuilderClass(spec))]]

\* The fields and the bodies of the classes handed to the listener.
BuilderFields ==
    {BField(BType("String", FALSE), "a", <<"private", "final">>, <<>>),
     BField(BType("String", TRUE), "b", <<"private", "final">>, <<>>),
     BField(BType("int", FALSE), "c", <<"private", "final">>, <<>>)}

BuilderBodies ==
    {<<>>,
     <<BElement("literal", "x", <<>>, <<>>, <<>>)>>,
     <<BElement("literal", "x", <<>>, <<>>, <<>>),
       BElement("class", "Inner", <<"public">>, <<>>, <<>>)>>}

\* How often the listener is called on one class at most.
MaxCalls == 2

InitBuilder ==
    /\ bSpec \in {BClass(name, its_fields, body) :
                    name \in {"A", "B"},
                    its_fields \in SeqsUpTo(BuilderFields, MaxFields),
                    body \in BuilderBodies}
    /\ bCalls = 0
    /\ bResult = "None"

ClassAdded ==
    /\ bCalls < MaxCalls
    /\ \E result \in {builder_class_added(bSpec)} :
          /\ bSpec' = result.spec
          /\ bResult' = IF result.ok THEN "Ok" ELSE "Err"
    /\ bCalls' = bCalls + 1
    /\ UNCHANGED <<modVars, mergeVars, javaVars, rustVars, parserVars, builderOthers>>

NextBuilder == ClassAdded

StartBuilder ==
    InitBuilder /\ IdleMod /\ IdleMerge /\ IdleJava /\ IdleRust /\ IdleParser
    /\ IdleBuilderOthers

SpecBuilder == StartBuilder /\ [][NextBuilder]_vars

(***************************************************************************)
(* The check command (cli/src/ops/check.rs)                                *)
(***************************************************************************)
\* A match: where it comes from, and its place there.
Match(origin, at) == [origin |-> origin, at |-> at]

\* What one call of semck_check does: it records `found` violations in
\* errors, and returns Ok or, when fatal, an error of its own.
Outcome(found, fatal) == [found |-> found, fatal |-> fatal]

\* How many matches each source yields, and how many violations one call of
\* semck_check records, at most.
MaxMatches == 2

MaxViolations == 2

Outcomes == {Outcome(found, fatal) : found \in 0..MaxViolations, fatal \in BOOLEAN}

\* `results`: the publish matches, extended by the package matches.
Results(publish, packages) == publish \o packages

\* What entry returns: Ok, Err(Errors(errors)), or another error.
Returned(kind, errors) == [kind |-> kind, errors |-> errors]

\* The state of the run: status is "Setup" before the loop, "Loop" in it,
\* "Done" once entry returned; fatal tells whether the last call of
\* semck_check returned an error.
Loop(status, results, at, errors, checked, fatal) ==
    [status |-> status, results |-> results, at |-> at, errors |-> errors,
     checked |-> checked, fatal |-> fatal]

\* The violations a call records for a match.
Violations(m, found) == [i \in 1..found |-> [match |-> m, number |-> i]]

\* A slip: the loop ends at the first match that recorded a violation.
LoopStep_StopAtViolation(loop, outcome) ==
    LET m == loop.results[loop.at]
        errors == loop.errors \o Violations(m, outcome.found)
    IN  Loop(IF outcome.fatal \/ errors # <<>> THEN "Done" ELSE "Loop", loop.results,
             IF outcome.fatal \/ errors # <<>> THEN loop.at ELSE loop.at + 1,
             errors, Append(loop.checked, m), outcome.fatal)

\* One iteration of `for m in results { semck_check(&mut errors, .., &m)?; }`.
LoopStep(loop, outcome) ==
    LET m == loop.results[loop.at]
    IN  Loop(IF outcome.fatal THEN "Done" ELSE "Loop", loop.results,
             IF outcome.fatal THEN loop.at ELSE loop.at + 1,
             loop.errors \o Violations(m, outcome.found), Append(loop.checked, m),
             outcome.fatal)

\* What entry returns after the loop.
AfterLoop(errors) ==
    IF Len(errors) > 0 THEN Returned("Errors", errors) ELSE Returned("Ok", <<>>)

NotReturned == Returned("None", <<>>)

InitCheck ==
    /\ ckPublish \in {[i \in 1..n |-> Match("publish", i)] : n \in 0..MaxMatches}
    /\ ckPackages \in {[i \in 1..n |-> Match("package", i)] : n \in 0..MaxMatches}
    /\ ckLoop = Loop("Setup", <<>>, 1, <<>>, <<>>, FALSE)
    /\ ckReturn = NotReturned

\* Everything before the loop.  Each of its steps may fail, and entry then
\* returns that error.
CheckSetup ==
    /\ ckLoop.status = "Setup"
    /\ \E failed \in BOOLEAN :
          IF failed
          THEN /\ ckLoop' = [ckLoop EXCEPT !.status = "Done"]
               /\ ckReturn' = Returned("Error", <<>>)
          ELSE /\ ckLoop' = Loop("Loop", Results(ckPublish, ckPackages), 1, <<>>, <<>>, FALSE)
               /\ UNCHANGED ckReturn
    /\ UNCHANGED <<ckPublish, ckPackages>>
    /\ UNCHANGED <<modVars, mergeVars, javaVars, rustVars, parserVars, checkOthers>>

\* One call of semck_check in the loop.
CheckMatch ==
    /\ ckLoop.status = "Loop"
    /\ ckLoop.at <= Len(ckLoop.results)
    /\ \E outcome \in Outcomes :
          /\ ckLoop' = LoopStep(ckLoop, outcome)
          /\ ckReturn' = IF ckLoop'.status = "Done" THEN Returned("Error", <<>>)
                         ELSE ckReturn
    /\ UNCHANGED <<ckPublish, ckPackages>>
    /\ UNCHANGED <<modVars, mergeVars, javaVars, rustVars, parserVars, checkOthers>>

\* The loop is over.
CheckReturn ==
    /\ ckLoop.status = "Loop"
    /\ ckLoop.at > Len(ckLoop.results)
    /\ ckLoop' = [ckLoop EXCEPT !.status = "Done"]
    /\ ckReturn' = AfterLoop(ckLoop.errors)
    /\ UNCHANGED <<ckPublish, ckPackages>>
    /\ UNCHANGED <<modVars, mergeVars, javaVars, rustVars, parserVars, checkOthers>>

NextCheck == CheckSetup \/ CheckMatch \/ CheckReturn

StartCheck ==
    InitCheck /\ IdleMod /\ IdleMerge /\ IdleJava /\ IdleRust /\ IdleParser
    /\ IdleCheckOthers

SpecCheck == StartCheck /\ [][NextCheck]_vars

(***************************************************************************)
(* ForEachLoc::for_each_loc (core/src/for_each_loc.rs)                     *)
(***************************************************************************)

\* An item of the collection; as_loc().take_pair() splits it.
LocItem(value, pos) == [value |-> value, pos |-> pos]

take_pair(item) == <<item.value, item.pos>>

\* An error; pos is <<>> while the error carries no position.
LocError(message, pos) == [message |-> message, pos |-> pos]

\* WithPos::with_pos: the error, carrying the position.
with_pos(e, pos) == [e EXCEPT !.pos = <<pos>>]

\* A slip: the callback's result is passed on as it is.
map_err_Unmapped(outcome, pos) == outcome

\* `callback(value).map_err(|e| e.with_pos(pos))`, for the callback's result
\* `outcome`: <<>> is Ok(()), <<e>> is Err(e).
map_err(outcome, pos) ==
    IF outcome = <<>> THEN <<>> ELSE <<with_pos(outcome[1], pos)>>

\* One invocation of the callback: on the item at `at`, with `outcome`.
LocCall(at, value, outcome) == [at |-> at, value |-> value, outcome |-> outcome]

\* What for_each_loc returned: kind is "Running" until it has, then "Ok" or
\* "Err" with the error.
LocResult(kind, err) == [kind |-> kind, err |-> err]

LocLoop(at, calls, result) == [at |-> at, calls |-> calls, result |-> result]

\* A slip: the `?` is missing, and a failure of the callback is dropped.
for_each_loc_DroppingFailures(self, loop, outcome) ==
    LET pair == take_pair(self[loop.at])
    IN  LocLoop(loop.at + 1, Append(loop.calls, LocCall(loop.at, pair[1], outcome)),
                loop.result)

\* One iteration of the loop of for_each_loc, in which the callback returns
\* `outcome`.
for_each_loc(self, loop, outcome) ==
    LET pair == take_pair(self[loop.at])
        mapped == map_err(outcome, pair[2])
        calls == Append(loop.calls, LocCall(loop.at, pair[1], outcome))
    IN  IF mapped # <<>>
        THEN LocLoop(loop.at, calls, LocResult("Err", mapped[1]))
        ELSE LocLoop(loop.at + 1, calls, loop.result)

\* The collection holds at most this many items.
MaxLocItems == 3

LocValues == {"a", "b"}

LocPositions == {10, 20}

\* What the callback may return: Ok(()), or an error of its own.
LocOutcomes == {<<>>, <<LocError("failed", <<>>)>>}

NoLocError == LocError("", <<>>)

InitLoc ==
    /\ lItems \in UNION {[1..n -> {LocItem(v, p) : v \in LocValues, p \in LocPositions}]
                          : n \in 0..MaxLocItems}
    /\ lLoop = LocLoop(1, <<>>, LocResult("Running", NoLocError))

\* The loop takes the next item and invokes the callback on it.
LocNext ==
    /\ lLoop.result.kind = "Running"
    /\ lLoop.at <= Len(lItems)
    /\ \E outcome \in LocOutcomes : lLoop' = for_each_loc(lItems, lLoop, outcome)
    /\ UNCHANGED lItems
    /\ UNCHANGED <<modVars, mergeVars, javaVars, rustVars, parserVars, locOthers>>

\* The collection is exhausted: `Ok(())`.
LocReturn ==
    /\ lLoop.result.kind = "Running"
    /\ lLoop.at > Len(lItems)
    /\ lLoop' = [lLoop EXCEPT !.result = LocResult("Ok", NoLocError)]
    /\ UNCHANGED lItems
    /\ UNCHANGED <<modVars, mergeVars, javaVars, rustVars, parserVars, locOthers>>

NextLoc == LocNext \/ LocReturn

StartLoc ==
    InitLoc /\ IdleMod /\ IdleMerge /\ IdleJava /\ IdleRust /\ IdleParser
    /\ IdleLocOthers

SpecLoc == StartLoc /\ [][NextLoc]_vars

(***************************************************************************)
(* GitObjects (repository/src/objects/git_objects.rs)                      *)
(***************************************************************************)

Checksums == {"c1", "c2"}

\* FileObjects: the checksums it holds an object for.  put_object stores the
\* object of the checksum, and stores nothing twice.
file_put_object(file_objects, checksum) == file_objects \cup {checksum}

\* FileObjects::get_object: the path of the object (told by its checksum),
\* None (<<>>) when it holds none.
file_get_object(file_objects, checksum) ==
    IF checksum \in file_objects THEN <<checksum>> ELSE <<>>

\* GitRepo::update: one more pull of the upstream; git_repo counts them.
git_update(git_repo) == git_repo + 1

\* GitObjects::new
GitObjects(git_repo, file_objects) ==
    [git_repo |-> git_repo, file_objects |-> file_objects]

\* What a call leaves and returns: Ok(value) or Err.
GitReturn(self, ok, value) == [self |-> self, ok |-> ok, value |-> value]

\* A slip: every put pulls the upstream as well.
put_object_Updating(self, checksum, failed) ==
    IF failed THEN GitReturn(self, FALSE, <<>>)
    ELSE GitReturn(GitObjects(git_update(self.git_repo),
                              file_put_object(self.file_objects, checksum)),
                   TRUE, <<>>)

\* GitObjects::put_object; `failed` tells whether FileObjects::put_object
\* returns an error.
put_object(self, checksum, failed) ==
    IF failed THEN GitReturn(self, FALSE, <<>>)
    ELSE GitReturn(GitObjects(self.git_repo,
                              file_put_object(self.file_objects, checksum)),
                   TRUE, <<>>)

\* GitObjects::get_object
get_object(self, checksum, failed) ==
    IF failed THEN GitReturn(self, FALSE, <<>>)
    ELSE GitReturn(self, TRUE, file_get_object(self.file_objects, checksum))

\* GitObjects::update
update(self, failed) ==
    IF failed THEN GitReturn(self, FALSE, <<>>)
    ELSE GitReturn(GitObjects(git_update(self.git_repo), self.file_objects), TRUE, <<>>)

\* A call in the history.
GitCall(call, checksum, returned) ==
    [call |-> call, checksum |-> checksum, ok |-> returned.ok, value |-> returned.value]

\* How many calls are made on a GitObjects at most.
MaxGitCalls == 3

InitGit ==
    /\ gStart \in SUBSET Checksums
    /\ gSelf = GitObjects(0, gStart)
    /\ gLog = <<>>

GitDo(call, checksum, returned) ==
    /\ Len(gLog) < MaxGitCalls
    /\ gSelf' = returned.self
    /\ gLog' = Append(gLog, GitCall(call, checksum, returned))
    /\ UNCHANGED gStart
    /\ UNCHANGED <<modVars, mergeVars, javaVars, rustVars, parserVars, gitOthers>>

PutObject ==
    \E checksum \in Checksums, failed \in BOOLEAN :
        GitDo("put_object", checksum, put_object(gSelf, checksum, failed))

GetObject ==
    \E checksum \in Checksums, failed \in BOOLEAN :
        GitDo("get_object", checksum, get_object(gSelf, checksum, failed))

Update == \E failed \in BOOLEAN : GitDo("update", "", update(gSelf, failed))

NextGit == PutObject \/ GetObject \/ Update

StartGit ==
    InitGit /\ IdleMod /\ IdleMerge /\ IdleJava /\ IdleRust /\ IdleParser
    /\ IdleGitOthers

SpecGit == StartGit /\ [][NextGit]_vars

(***************************************************************************)
(* Publishing to a repository (repository/src/errors.rs; section 4.7)      *)
(***************************************************************************)

\* The kinds of the repository's Error: those of `errors`, the links and
\* foreign links, and the Msg kind every error_chain! has.
RepoErrorKinds ==
    {"Msg", "Core", "Io", "TomlDe", "SerdeJson", "UrlParseError", "FromHexError",
     "HyperUriError", "HyperError", "SystemTimeError", "EmptyIndex", "EmptyObjects",
     "NoPublishIndex", "NoPublishObjects", "NoPublishedPackage", "PoisonError"}

\* The versions of the one package that is published.
Versions == {"1.0.0", "1.0.1"}

\* What a call returns: Ok, or Err with an error of kind err.
IndexReturn(ok, err) == [ok |-> ok, err |-> err]

\* Objects::put_object: content-addressed, and the same whenever repeated.
objects_put_object(objects, checksum) == objects \cup {checksum}

\* Index::put_index: records the checksum of the version, unless the version
\* is there with another checksum; `index` is left as it is then, and the
\* call fails with an error of the repository, of kind `kind`.
put_index(index, version, checksum, kind) ==
    IF index[version] # <<>> /\ index[version] # <<checksum>>
    THEN [index |-> index, returned |-> IndexReturn(FALSE, kind)]
    ELSE [index |-> [index EXCEPT ![version] = <<checksum>>],
          returned |-> IndexReturn(TRUE, "")]

IndexCall(call, version, checksum, before, returned) ==
    [call |-> call, version |-> version, checksum |-> checksum, before |-> before,
     ok |-> returned.ok, err |-> returned.err]

InitIndex ==
    /\ iObjects \in SUBSET Checksums
    /\ iIndex \in [Versions -> {<<>>} \cup {<<c>> : c \in iObjects}]
    /\ iLast = IndexCall("none", "", "", <<>>, IndexReturn(TRUE, ""))

IndexPutObject ==
    \E checksum \in Checksums :
        /\ iObjects' = objects_put_object(iObjects, checksum)
        /\ iLast' = IndexCall("put_object", "", checksum, <<>>, IndexReturn(TRUE, ""))
        /\ UNCHANGED iIndex
        /\ UNCHANGED <<modVars, mergeVars, javaVars, rustVars, parserVars, indexOthers>>

\* put_index for an object that was put.
IndexPutIndex ==
    \E version \in Versions, checksum \in iObjects, kind \in RepoErrorKinds :
        LET put == put_index(iIndex, version, checksum, kind)
        IN  /\ iIndex' = put.index
            /\ iLast' = IndexCall("put_index", version, checksum, iIndex[version],
                                  put.returned)
            /\ UNCHANGED iObjects
            /\ UNCHANGED <<modVars, mergeVars, javaVars, rustVars, parserVars, indexOthers>>

NextIndex == IndexPutObject \/ IndexPutIndex

StartIndex ==
    InitIndex /\ IdleMod /\ IdleMerge /\ IdleJava /\ IdleRust /\ IdleParser
    /\ IdleIndexOthers

SpecIndex == StartIndex /\ [][NextIndex]_vars

(***************************************************************************)
(* java_quote_string (codegen/src/java/mod.rs)                             *)
(***************************************************************************)

\* The arms of the `match c` of java_quote_string: what is pushed for c.
QuoteChar(c) ==
    CASE c = Chr.tab -> <<Chr.backslash, Chr.t>>
      [] c = Chr.bell -> <<Chr.backslash, Chr.b>>
      [] c = Chr.newline -> <<Chr.backslash, Chr.n>>
      [] c = Chr.return -> <<Chr.backslash, Chr.r>>
      [] c = Chr.dc4 -> <<Chr.backslash, Chr.f>>
      [] c = Chr.apostrophe -> <<Chr.backslash, Chr.apostrophe>>
      [] c = Chr.quote -> <<Chr.backslash, Chr.quote>>
      [] c = Chr.backslash -> <<Chr.backslash, Chr.backslash>>
      [] OTHER -> <<c>>

\* The loop `while let Some(c) = it.next()`.
RECURSIVE QuoteLoop(_, _)
QuoteLoop(out, it) ==
    IF it = <<>> THEN out ELSE QuoteLoop(out \o QuoteChar(Head(it)), Tail(it))

java_quote_string(input) == QuoteLoop(<<Chr.quote>>, input) \o <<Chr.quote>>

\* The characters strings are made of.
QuoteChars ==
    {Chr.bell, Chr.backspace, Chr.tab, Chr.newline, Chr.formfeed, Chr.return, Chr.dc4,
     Chr.quote, Chr.apostrophe, Chr.backslash, Chr.b, Chr.f, Chr.x}

\* The length of a string, at most.
MaxQuoted == 2

InitQuote ==
    /\ qInput \in UNION {[1..n -> QuoteChars] : n \in 0..MaxQuoted}
    /\ qOutput = <<>>

JavaQuoteString ==
    /\ qOutput = <<>>
    /\ qOutput' = <<java_quote_string(qInput)>>
    /\ UNCHANGED qInput
    /\ UNCHANGED <<modVars, mergeVars, javaVars, rustVars, parserVars, quoteOthers>>

NextQuote == JavaQuoteString

StartQuote ==
    InitQuote /\ IdleMod /\ IdleMerge /\ IdleJava /\ IdleRust /\ IdleParser
    /\ IdleQuoteOthers

SpecQuote == StartQuote /\ [][NextQuote]_vars

(***************************************************************************)
(* Type::format (codegen/src/java/mod.rs), on the types convert_type makes *)
(***************************************************************************)

\* The types of the Processor: its primitive types and its classes without
\* arguments.
JavaLeaves ==
    {JPrimitive("int", "Integer"), JPrimitive("long", "Long"),
     JClass("java.lang", "String", <<>>)}

\* The types with arguments nested at most n deep: list.with_arguments and
\* map.with_arguments of convert_type.
RECURSIVE JavaTypes(_)
JavaTypes(n) ==
    IF n = 0 THEN JavaLeaves
    ELSE LET inner == JavaTypes(n - 1)
         IN  JavaLeaves
             \cup {JClass("java.util", "List", <<a>>) : a \in inner}
             \cup {JClass("java.util", "Map", <<a, b>>) : a \in inner, b \in inner}

\* How deep arguments nest at most.
MaxArgDepth == 2

InitFmt ==
    /\ fType \in JavaTypes(MaxArgDepth)
    /\ fLevel \in {0, 1}
    /\ fOut = <<>>

\* A call of Type::format.
FormatJavaType ==
    /\ fOut = <<>>
    /\ fOut' = <<FormatType(fType, fLevel)>>
    /\ UNCHANGED <<fType, fLevel>>
    /\ UNCHANGED <<modVars, mergeVars, javaVars, rustVars, parserVars, fmtOthers>>

NextFmt == FormatJavaType

StartFmt ==
    InitFmt /\ IdleMod /\ IdleMerge /\ IdleJava /\ IdleRust /\ IdleParser
    /\ IdleFmtOthers

SpecFmt == StartFmt /\ [][NextFmt]_vars

(***************************************************************************)
(* FileSpec::format and its imports (codegen/src/java/mod.rs)              *)
(***************************************************************************)

\* The types of the fields of the classes in a file.
FileTypes ==
    {JClass("java.lang", "String", <<>>),
     JClass("java.util", "List", <<JClass("java.lang", "String", <<>>)>>),
     JClass("java.util", "List", <<JPrimitive("long", "Long")>>),
     JClass("java.util", "Map",
            <<JClass("java.lang", "String", <<>>), JClass("u", "Foo", <<>>)>>),
     JClass(JavaPackage, "Bar", <<>>),
     JClass("u", "Foo", <<>>)}

\* How many fields the first class of a file holds at most.
MaxFileFields == 3

\* A class with fields of the given types.
FileClass(name, types) ==
    [ClassSpec(name) EXCEPT
        !.fields = [i \in 1..Len(types) |-> [name |-> TupleFieldName(i - 1), ty |-> types[i]]]]

InitFile ==
    /\ flElements \in
          {<<FileClass("A", types)>> : types \in SeqsUpTo(FileTypes, MaxFileFields)}
          \cup {<<FileClass("A", types), FileClass("B", <<other>>)>> :
                  types \in SeqsUpTo(FileTypes, MaxFileFields), other \in FileTypes}
    /\ flOut = <<>>

\* file.format() for a file of the elements, in the package of the model.
FormatFileSpec ==
    /\ flOut = <<>>
    /\ flOut' = <<FormatFile("", JResult(TRUE, "", flElements, "class", <<>>))>>
    /\ UNCHANGED flElements
    /\ UNCHANGED <<modVars, mergeVars, javaVars, rustVars, parserVars, fileOthers>>

NextFile == FormatFileSpec

StartFile ==
    InitFile /\ IdleMod /\ IdleMerge /\ IdleJava /\ IdleRust /\ IdleParser
    /\ IdleFileOthers

SpecFile == StartFile /\ [][NextFile]_vars

(***************************************************************************)
(* RpRegistered::is_assignable_from (core/src/rp_registered.rs)            *)
(***************************************************************************)

\* Rc::ptr_eq: the same allocation.
ptr_eq(target, source) == target.ptr = source.ptr

\* A slip: a container is taken for its member as well.
is_assignable_from_BothWays(self, other) ==
    CASE self.kind = other.kind /\ self.kind \in {"Type", "Tuple", "Service", "Interface", "Enum"} ->
            ptr_eq(self.body, other.body)
      [] {self.kind, other.kind} = {"Interface", "SubType"} -> ptr_eq(self.body, other.body)
      [] {self.kind, other.kind} = {"Enum", "EnumConstant"} -> ptr_eq(self.body, other.body)
      [] self.kind = other.kind /\ self.kind \in {"SubType", "EnumConstant"} ->
            ptr_eq(self.body, other.body) /\ ptr_eq(self.part, other.part)
      [] OTHER -> FALSE

\* A slip: the arm of the services is missing.
is_assignable_from_NoService(self, other) ==
    CASE self.kind = other.kind /\ self.kind \in {"Type", "Tuple", "Interface", "Enum"} ->
            ptr_eq(self.body, other.body)
      [] self.kind = "Interface" /\ other.kind = "SubType" -> ptr_eq(self.body, other.body)
      [] self.kind = "Enum" /\ other.kind = "EnumConstant" -> ptr_eq(self.body, other.body)
      [] self.kind = other.kind /\ self.kind \in {"SubType", "EnumConstant"} ->
            ptr_eq(self.body, other.body) /\ ptr_eq(self.part, other.part)
      [] OTHER -> FALSE

\* RpRegistered::is_assignable_from, arm by arm.
is_assignable_from(self, other) ==
    CASE self.kind = "Type" /\ other.kind = "Type" -> ptr_eq(self.body, other.body)
      [] self.kind = "Tuple" /\ other.kind = "Tuple" -> ptr_eq(self.body, other.body)
      [] self.kind = "Service" /\ other.kind = "Service" -> ptr_eq(self.body, other.body)
      [] self.kind = "Interface" /\ other.kind = "Interface" -> ptr_eq(self.body, other.body)
      [] self.kind = "Enum" /\ other.kind = "Enum" -> ptr_eq(self.body, other.body)
      [] self.kind = "Interface" /\ other.kind = "SubType" -> ptr_eq(self.body, other.body)
      [] self.kind = "Enum" /\ other.kind = "EnumConstant" -> ptr_eq(self.body, other.body)
      [] self.kind = "SubType" /\ other.kind = "SubType" ->
            ptr_eq(self.body, other.body) /\ ptr_eq(self.part, other.part)
      [] self.kind = "EnumConstant" /\ other.kind = "EnumConstant" ->
            ptr_eq(self.body, other.body) /\ ptr_eq(self.part, other.part)
      [] OTHER -> FALSE

\* The allocations of bodies, and of sub-types and variants.  All bodies
\* hold the same, so that only the allocation tells them apart.
BodyPtrs == {1, 2}

PartPtrs == {3, 4}

Handles ==
    {Registered(kind, RegBody(ptr, "A", <<>>), NoBody) :
        kind \in {"Type", "Tuple", "Service", "Interface", "Enum"}, ptr \in BodyPtrs}
    \cup {Registered(kind, RegBody(parent, "A", <<>>), RegBody(part, "S", <<>>)) :
            kind \in {"SubType", "EnumConstant"}, parent \in BodyPtrs, part \in PartPtrs}

NotAsked == [aa |-> <<>>, ab |-> <<>>, bc |-> <<>>, ac |-> <<>>]

InitAssign ==
    /\ hA \in Handles
    /\ hB \in Handles
    /\ hC \in Handles
    /\ hOut = NotAsked

\* One call of is_assignable_from, on one of the pairs.
IsAssignableFrom ==
    /\ \/ hOut.aa = <<>> /\ hOut' = [hOut EXCEPT !.aa = <<is_assignable_from(hA, hA)>>]
       \/ hOut.ab = <<>> /\ hOut' = [hOut EXCEPT !.ab = <<is_assignable_from(hA, hB)>>]
       \/ hOut.bc = <<>> /\ hOut' = [hOut EXCEPT !.bc = <<is_assignable_from(hB, hC)>>]
       \/ hOut.ac = <<>> /\ hOut' = [hOut EXCEPT !.ac = <<is_assignable_from(hA, hC)>>]
    /\ UNCHANGED <<hA, hB, hC>>
    /\ UNCHANGED <<modVars, mergeVars, javaVars, rustVars, parserVars, assignOthers>>

NextAssign == IsAssignableFrom

StartAssign ==
    InitAssign /\ IdleMod /\ IdleMerge /\ IdleJava /\ IdleRust /\ IdleParser
    /\ IdleAssignOthers

SpecAssign == StartAssign /\ [][NextAssign]_vars

(***************************************************************************)
(* Claims about write_mod_files (checked under SpecMod)                    *)
(***************************************************************************)
\* What the package set places under a directory node, read off the package
\* paths: the directory nodes, and each node's immediate children.
ExpectedNodes(keys) ==
    {<<>>} \cup UNION {{Prefix(p, n) : n \in 1..(Len(p) - 1)} : p \in keys}

ExpectedChildren(keys, node) ==
    {p[Len(node) + 1] : p \in {q \in keys : Len(q) > Len(node) /\ IsPrefixOf(node, q)}}

SortedNoDup(lines) ==
    \A i, j \in 1..Len(lines) : i < j => Rank(lines[i]) < Rank(lines[j])

\* C1: after every run that returned Ok, also one into a directory that holds
\* module files of an earlier run, the module file of each directory node of
\* the current package set exists and lists every immediate child the current
\* package set places under that node.
C1_ModFilesListCurrentChildren ==
    modResult = "Ok" =>
        \A node \in ExpectedNodes(files) :
            /\ node \in DOMAIN fs
            /\ ExpectedChildren(files, node) \subseteq Range(fs[node])

\* C2: a run that starts with no module file on disk and returns Ok leaves
\* exactly one module file per directory node of the package set (the root
\* and every proper prefix of a package path), each holding exactly the
\* node's immediate children, sorted and without duplicates.
C2_FreshRunWritesExactlyTheTree ==
    [][(DOMAIN fs = {} /\ modResult' = "Ok") =>
          /\ DOMAIN fs' = ExpectedNodes(files')
          /\ \A node \in DOMAIN fs' :
                /\ Range(fs'[node]) = ExpectedChildren(files', node)
                /\ SortedNoDup(fs'[node])]_vars

\* C2's case: a run from an empty disk that wrote several module files, one
\* of them with more than one child.
C2_Witness ==
    /\ modResult = "Ok"
    /\ created = DOMAIN fs
    /\ Cardinality(created) >= 2
    /\ \E node \in created : Len(fs[node]) >= 2

\* C3: a run that repeats the package set of the preceding run, which
\* returned Ok, returns Ok and changes no module file.
C3_RerunChangesNothing ==
    [][(modResult = "Ok" /\ files' = files) =>
          (fs' = fs /\ modResult' = "Ok")]_vars

\* C3's case: the last run repeated the package set of a successful run that
\* had written module files.
C3_Witness ==
    /\ rerun
    /\ modResult = "Ok"
    /\ Cardinality(DOMAIN fs) >= 2

(***************************************************************************)
(* Claims about Merge on code-block lists (checked under SpecMerge)        *)
(***************************************************************************)
\* The blocks of a list with their multiplicities.
BagOfSeq(list) ==
    [x \in Range(list) |-> Cardinality({i \in 1..Len(list) : list[i] = x})]

ClassNames(decl) ==
    IF decl.kind = "Interface"
    THEN {decl.sub_types[i].name : i \in 1..Len(decl.sub_types)}
    ELSE {decl.name}

ListenerFailsOn(decl) == ClassNames(decl) \cap jFailing # {}

\* The file a declaration is emitted to, when its emission succeeds.
EmittedFile(decl) == FormatFile(decl.name, process_decl(decl))

\* C5: in a finished run in which a listener failed, and nothing else did (no
\* I/O error, no unsupported type), every declaration the listener did not
\* fail on is written, and the returned error names every declaration the
\* listener failed on.
C5_ListenerFailuresAreBatched ==
    ( /\ jStatus # "Running"
      /\ \E d \in Range(jTypes) : ListenerFailsOn(d)
      /\ \A d \in Range(jTypes) : process_decl(d).err # "type"
      /\ \A e \in Range(jErrors) : e.kind # "io" )
    => /\ \A d \in Range(jTypes) :
            ~ListenerFailsOn(d) =>
                (d.name \in DOMAIN jDisk /\ jDisk[d.name] = EmittedFile(d))
       /\ {e.decl : e \in Range(jErrors)} =
            {d.name : d \in {x \in Range(jTypes) : ListenerFailsOn(x)}}

\* C6: a file at its final path is never partial: the path holds what it held
\* before the run (here: nothing) or the complete output of its declaration.
C6_OutputFilesAreAtomic ==
    \A d \in Range(jTypes) :
        d.name \in DOMAIN jDisk => jDisk[d.name] = EmittedFile(d)

\* The context of the Java emitter.
JAVA_CONTEXT == "java"

\* C7: no line of a code block attached for a context other than java occurs
\* in the file generated for its declaration.
C7_ForeignCodeBlocksIgnored ==
    \A d \in Range(jTypes) :
        d.name \in DOMAIN jDisk =>
            \A m \in Range(d.members) :
                (m.m = "Code" /\ m.context # JAVA_CONTEXT) =>
                    \A k \in 1..Len(m.content) :
                        <<m.content[k]>> \notin Range(jDisk[d.name])

(***************************************************************************)
(* Claims about the Rust backend (checked under SpecRust)                  *)
(***************************************************************************)
\* The lines of the code blocks attached to a body for a context, in
\* attachment order.
RECURSIVE AttachedLines(_, _)
AttachedLines(codes, context) ==
    IF codes = <<>> THEN <<>>
    ELSE (IF Head(codes).context = context
          THEN [k \in 1..Len(Head(codes).lines) |-> <<Head(codes).lines[k]>>]
          ELSE <<>>)
         \o AttachedLines(Tail(codes), context)

\* The verbatim code lines among the lines of an item.
CodeTexts == UNION {Range(c.lines) : c \in CodeBlocks}

IsCodeLine(line) == Len(line) = 1 /\ line[1] \in CodeTexts

\* C8: the item every successful process_tuple, process_enum, process_type
\* and process_interface emits holds the lines of the rust code blocks of its
\* declaration, verbatim and in attachment order.
C8_RustCodeBlocksInlined ==
    rResult = "Ok" =>
        SelectSeq(rOut[Len(rOut)].body, IsCodeLine) = AttachedLines(rBody.codes, "rust")

(***************************************************************************)
(* Claims about the parser's text functions                                *)
(***************************************************************************)
\* The character an item of a string literal denotes.
Denoted(item) ==
    CASE item.kind = "plain" -> item.c
      [] item.kind = "escape" ->
            (CASE item.c = Chr.n -> Chr.newline
               [] item.c = Chr.r -> Chr.return
               [] item.c = Chr.t -> Chr.tab
               [] OTHER -> item.c)
      [] item.kind = "unicode" ->
            HexValue(item.hex[1])[1] * 4096 + HexValue(item.hex[2])[1] * 256
            + HexValue(item.hex[3])[1] * 16 + HexValue(item.hex[4])[1]

\* C9 (checked under SpecDecode): decoding a string literal the grammar
\* accepts succeeds and yields, item by item, the characters the literal
\* denotes, without the quotes.
C9_GrammarStringsDecode ==
    dResult.done =>
        /\ dResult.ok
        /\ dResult.out = [i \in 1..Len(dItems) |-> Denoted(dItems[i])]

\* A line is blank when it is empty or holds nothing but the whitespace of
\* indentation, spaces and tabs.
Blank(line) == \A i \in 1..Len(line) : line[i] \in {Chr.space, Chr.tab}

\* `short` is `line` without some of its leading whitespace.
Dedented(short, line) ==
    \E n \in 0..Len(line) :
        /\ \A i \in 1..n : line[i] \in {Chr.space, Chr.tab}
        /\ short = SubSeq(line, n + 1, Len(line))

\* C10 (checked under SpecStrip): for a text with a non-blank line, the
\* result holds one line for each line from the first non-blank line through
\* the last non-blank line, in order: leading and trailing blank lines are
\* dropped and interior blank lines kept.  Each returned line is its line
\* less leading whitespace, and blank exactly when its line is blank.
C10_KeepsFirstToLastNonBlank ==
    LET lines    == Lines(sInput)
        nonblank == {i \in 1..Len(lines) : ~Blank(lines[i])}
    IN  (sResult.done /\ nonblank # {}) =>
            LET first == CHOOSE i \in nonblank : \A j \in nonblank : i <= j
                last  == CHOOSE i \in nonblank : \A j \in nonblank : i >= j
            IN  /\ Len(sResult.lines) = last - first + 1
                /\ \A k \in 1..Len(sResult.lines) :
                      /\ Dedented(sResult.lines[k], lines[first + k - 1])
                      /\ Blank(sResult.lines[k]) <=> Blank(lines[first + k - 1])

\* C10's case: a leading blank line, an interior blank line and a trailing
\* blank line around two non-blank lines; three lines are returned.
C10_Witness ==
    LET lines == Lines(sInput)
    IN  /\ sResult.done
        /\ Len(lines) = 5
        /\ Blank(lines[1]) /\ ~Blank(lines[2]) /\ Blank(lines[3])
        /\ ~Blank(lines[4]) /\ Blank(lines[5])
        /\ Len(sResult.lines) = 3

\* The number of leading spaces and tabs of a line.
RECURSIVE Indentation(_)
Indentation(line) ==
    IF line = <<>> \/ Head(line) \notin {Chr.space, Chr.tab} THEN 0
    ELSE 1 + Indentation(Tail(line))

\* The non-blank lines of the input, by line number.
NonBlankLines == {i \in 1..Len(Lines(sInput)) : ~Blank(Lines(sInput)[i])}

\* The smallest indentation among the non-blank lines.
MinIndentation ==
    LET found == {Indentation(Lines(sInput)[i]) : i \in NonBlankLines}
    IN  CHOOSE m \in found : \A n \in found : m <= n

\* C11 (checked under SpecStrip): with m the minimum indentation over the
\* non-blank lines, every non-blank line from the first to the last is
\* returned without its first m characters, which are whitespace, so that
\* indentation relative to the other lines is kept; and some returned line
\* starts with a character that is not whitespace.
C11_RemovesMinimumIndentation ==
    (sResult.done /\ NonBlankLines # {}) =>
        LET lines == Lines(sInput)
            first == CHOOSE i \in NonBlankLines : \A j \in NonBlankLines : i <= j
            last  == CHOOSE i \in NonBlankLines : \A j \in NonBlankLines : i >= j
            m     == MinIndentation
        IN  /\ Len(sResult.lines) = last - first + 1
            /\ \A i \in NonBlankLines :
                  /\ sResult.lines[i - first + 1] = SubSeq(lines[i], m + 1, Len(lines[i]))
                  /\ Indentation(sResult.lines[i - first + 1]) = Indentation(lines[i]) - m
            /\ \E k \in 1..Len(sResult.lines) :
                  sResult.lines[k] # <<>> /\ Indentation(sResult.lines[k]) = 0

\* C11's case: two non-blank lines of different indentation, both indented.
C11_Witness ==
    /\ sResult.done
    /\ Cardinality(NonBlankLines) = 2
    /\ MinIndentation > 0
    /\ \E i, j \in NonBlankLines :
          Indentation(Lines(sInput)[i]) < Indentation(Lines(sInput)[j])

\* C12 (checked under SpecStrip): for a text all of whose lines are blank,
\* strip_code_block returns no lines.
C12_AllBlankYieldsNoLines ==
    (sResult.done /\ NonBlankLines = {}) => sResult.lines = <<>>

(***************************************************************************)
(* Claims about types (checked under SpecType)                             *)
(***************************************************************************)
\* C13: a signed or unsigned integer type becomes the 32-bit type (i32, u32)
\* when its width is absent or at most 32, and the 64-bit type (i64, u64) for
\* every larger width, widths above 64 included.
C13_IntegerWidthSelects32Or64 ==
    (tResult # <<>> /\ tParsed[1].ty.k \in {"Signed", "Unsigned"}) =>
        LET ty     == tParsed[1].ty
            letter == IF ty.k = "Signed" THEN "i" ELSE "u"
            small  == ty.size = <<>> \/ ty.size[1] <= 32
        IN  /\ tResult[1].ok
            /\ small => tResult[1].tokens = <<IF letter = "i" THEN "i32" ELSE "u32">>
            /\ ~small => tResult[1].tokens = <<IF letter = "i" THEN "i64" ELSE "u64">>

\* C13's case: a signed type of width 123 became i64.
C13_Witness ==
    /\ tResult # <<>>
    /\ tParsed[1].ty.k = "Signed"
    /\ tParsed[1].ty.size = <<123>>
    /\ tResult[1].tokens = <<"i64">>

\* The type holds, at some depth, `bytes` or a name the environment does not
\* know.
RECURSIVE Unrepresentable(_)
Unrepresentable(ty) ==
    \/ ty.k = "Bytes"
    \/ ty.k = "Name" /\ ty.name \notin RegisteredNames
    \/ \E i \in 1..Len(ty.args) : Unrepresentable(ty.args[i])

\* The depth at which the type first holds such a part (0: nowhere).
RECURSIVE UnrepresentableDepth(_)
UnrepresentableDepth(ty) ==
    IF ~Unrepresentable(ty) THEN 0
    ELSE IF ty.args = <<>> THEN 1
    ELSE 1 + (CHOOSE d \in 1..MaxTypeNodes + 1 :
                /\ \E i \in 1..Len(ty.args) : UnrepresentableDepth(ty.args[i]) = d
                /\ \A i \in 1..Len(ty.args) :
                      UnrepresentableDepth(ty.args[i]) \in {0} \cup (d..MaxTypeNodes + 1))

\* C14: into_rust_type fails exactly when the type holds `bytes` or an
\* unresolved name at any depth, and the error carries the position it was
\* given.
C14_ErrorsExactlyForUnrepresentable ==
    tResult # <<>> =>
        /\ ~tResult[1].ok <=> Unrepresentable(tParsed[1].ty)
        /\ ~tResult[1].ok => tResult[1].pos = tPos

\* C14's case: the failing part sits two levels down, inside a map or array
\* inside a map or array.
C14_Witness ==
    /\ tResult # <<>>
    /\ ~tResult[1].ok
    /\ UnrepresentableDepth(tParsed[1].ty) = 3
    /\ tResult[1].pos = tPos

\* C15: a map type keyed by `any` is rejected: parsing `{any: T}` yields no
\* map type, and no Rust type is produced for a map keyed by `any`.
C15_AnyKeyedMapRejected ==
    /\ (tParsed # <<>> /\ IsTok(tQueue, 1, "map_type") /\ IsTok(tQueue, 3, "any_type"))
            => ~(tParsed[1].ok /\ tParsed[1].ty.k = "Map")
    /\ (tResult # <<>> /\ tParsed[1].ty.k = "Map" /\ tParsed[1].ty.args[1].k = "Any")
            => ~tResult[1].ok

(***************************************************************************)
(* Claims about registered entities (checked under SpecReg)                *)
(***************************************************************************)
\* C16: the fields of a sub-type are the parent interface's fields followed
\* by the sub-type's own, each once and in declaration order; the fields of
\* a Type or a Tuple are the body's own; an Interface, Enum, EnumConstant or
\* Service has no fields and the call fails with `has no fields`.
C16_FieldsOfRegistered ==
    regOut.call = "fields" =>
        LET shared == regSelf.body.fields
            own    == regSelf.part.fields
        IN  CASE regSelf.kind = "SubType" ->
                    /\ regOut.ok
                    /\ Len(regOut.fields) = Len(shared) + Len(own)
                    /\ \A i \in 1..Len(shared) : regOut.fields[i] = shared[i]
                    /\ \A i \in 1..Len(own) : regOut.fields[Len(shared) + i] = own[i]
              [] regSelf.kind \in {"Type", "Tuple"} ->
                    regOut.ok /\ regOut.fields = shared
              [] OTHER ->
                    ~regOut.ok /\ regOut.err = "has no fields"

\* C16's case: a sub-type with fields of its own under a parent with shared
\* fields.
C16_Witness ==
    /\ regOut.call = "fields"
    /\ regSelf.kind = "SubType"
    /\ Len(regSelf.body.fields) = 2
    /\ Len(regSelf.part.fields) = 2
    /\ Len(regOut.fields) = 4

(***************************************************************************)
(* Claims about declarations (checked under SpecDecl)                      *)
(***************************************************************************)
\* The declarations reachable in a tree: the declaration, those nested in
\* it and those nested in its sub-types, and so on.
RECURSIVE DeclsIn(_)
DeclsIn(decl) ==
    {decl}
    \cup UNION {DeclsIn(decl.decls[i]) : i \in 1..Len(decl.decls)}
    \cup UNION {UNION {DeclsIn(decl.sub_types[i].decls[j]) :
                          j \in 1..Len(decl.sub_types[i].decls)} :
                  i \in 1..Len(decl.sub_types)}

\* What is to be registered: every reachable declaration, every sub-type of
\* a reachable interface, every variant of a reachable enum.
Registrable(decl) ==
    {RpReg(d.kind, d.ptr, <<>>) : d \in DeclsIn(decl)}
    \cup UNION {{RpReg("SubType", d.ptr, d.sub_types[i].ptr) : i \in 1..Len(d.sub_types)} :
                  d \in DeclsIn(decl)}
    \cup UNION {{RpReg("EnumVariant", d.ptr, d.variants[i].ptr) : i \in 1..Len(d.variants)} :
                  d \in DeclsIn(decl)}

\* C17: into_reg returns one registration for each declaration, sub-type and
\* variant reachable in the tree, none for anything else, and none twice.
C17_OneRegistrationEach ==
    declRegs # <<>> =>
        LET regs == declRegs[1]
        IN  /\ Range(regs) = Registrable(declSelf)
            /\ \A i, j \in 1..Len(regs) : regs[i] = regs[j] => i = j
            /\ Len(regs) = declSize

\* C17's case: a declaration nested in a sub-type of an interface that is
\* itself nested in a declaration.
C17_Witness ==
    /\ declRegs # <<>>
    /\ Len(declSelf.decls) = 1
    /\ declSelf.decls[1].kind = "Interface"
    /\ Len(declSelf.decls[1].sub_types) = 1
    /\ Len(declSelf.decls[1].sub_types[1].decls) = 1
    /\ Len(declRegs[1]) = 4

(***************************************************************************)
(* Claims about the listener hooks of the Java processor (under SpecJava)  *)
(***************************************************************************)
\* Where in the run a call was made on a class or interface.
CallsAt(ev, on) == {i \in 1..Len(jTrace) : jTrace[i] = Ev(ev, on)}

\* What the run called anything with.
CalledOn == {jTrace[i].on : i \in 1..Len(jTrace)}

\* C18: for every class placed into a file spec or an interface spec,
\* class_added was called once, after the constructor and every getter were
\* pushed and before the class was placed; for a sub-type's class
\* sub_type_added was called between the two; and for every interface placed
\* into a file spec interface_added was called once, after the last class was
\* placed into the interface and before the interface was placed.
C18_ListenerHooksInOrder ==
    \A on \in CalledOn :
        /\ \A placed \in CallsAt("file.push_class", on) \cup CallsAt("interface.push_class", on) :
              /\ Cardinality(CallsAt("class_added", on)) = 1
              /\ CallsAt("push_constructor", on) # {}
              /\ \A added \in CallsAt("class_added", on) :
                    /\ added < placed
                    /\ \A pushed \in CallsAt("push_constructor", on)
                                     \cup CallsAt("push_method", on) : pushed < added
        /\ \A placed \in CallsAt("interface.push_class", on) :
              /\ Cardinality(CallsAt("sub_type_added", on)) = 1
              /\ \A sub \in CallsAt("sub_type_added", on) :
                    /\ sub < placed
                    /\ \A added \in CallsAt("class_added", on) : added < sub
        /\ \A placed \in CallsAt("file.push_interface", on) :
              /\ Cardinality(CallsAt("interface_added", on)) = 1
              /\ \A added \in CallsAt("interface_added", on) :
                    /\ added < placed
                    /\ \A i \in 1..Len(jTrace) :
                          (jTrace[i].ev = "interface.push_class" /\ jTrace[i].on[1] = on[1])
                              => i < added

\* C18's case: a run that placed an interface with two sub-type classes, each
\* with getters, into its file spec.
C18_Witness ==
    /\ jStatus = "Ok"
    /\ \E d \in Range(jTypes) :
          /\ d.kind = "Interface"
          /\ CallsAt("file.push_interface", <<d.name>>) # {}
          /\ Cardinality({on \in CalledOn : CallsAt("interface.push_class", on) # {}
                                             /\ on[1] = d.name
                                             /\ CallsAt("push_method", on) # {}}) = 2

(***************************************************************************)
(* Claims about the Builder listener (checked under SpecBuilder)           *)
(***************************************************************************)
\* C19: a call of class_added does not fail, leaves the name and the fields
\* of the class and every element its body held as they were, and appends to
\* the body one nested class, public and static, named Builder.
C19_BuilderOnlyAugments ==
    [][ bCalls' = bCalls + 1 =>
            /\ bResult' = "Ok"
            /\ bSpec'.name = bSpec.name
            /\ bSpec'.fields = bSpec.fields
            /\ Len(bSpec'.body) = Len(bSpec.body) + 1
            /\ \A i \in 1..Len(bSpec.body) : bSpec'.body[i] = bSpec.body[i]
            /\ LET added == bSpec'.body[Len(bSpec'.body)]
               IN  /\ added.kind = "class"
                   /\ added.name = "Builder"
                   /\ added.modifiers = <<"public", "static">> ]_vars

\* C19's case: the listener was called on a class with fields whose body
\* already held two elements.
C19_Witness ==
    /\ bCalls = 1
    /\ bResult = "Ok"
    /\ Len(bSpec.fields) = 2
    /\ Len(bSpec.body) = 3
    /\ bSpec.body[2].name = "Inner"

(***************************************************************************)
(* Claims about the check command (checked under SpecCheck)                *)
(***************************************************************************)
\* C20: unless a call of semck_check itself fails, semck_check is called on
\* every match, the publish matches first and then those of the packages
\* named, whatever violations earlier matches recorded; entry then returns
\* Err(Errors(..)) with all violations recorded if there is one and Ok if
\* there is none.  A call of semck_check that fails ends the loop at once.
C20_CheckReportsWholeBatch ==
    /\ ckReturn.kind \in {"Ok", "Errors"} =>
          /\ ckLoop.checked = ckPublish \o ckPackages
          /\ ckReturn.kind = "Errors" <=> ckLoop.errors # <<>>
          /\ ckReturn.errors = ckLoop.errors
    /\ ckReturn.kind # "None" => ckLoop.status = "Done"
    /\ (ckLoop.status = "Done" /\ ckLoop.checked # <<>>) =>
          /\ ckLoop.fatal <=> ckReturn.kind = "Error"
          /\ ckLoop.fatal => ckLoop.checked = SubSeq(ckLoop.results, 1, ckLoop.at)
          /\ ~ckLoop.fatal => ckLoop.checked = ckLoop.results

\* C20's case: the first match recorded violations, the later ones were
\* still checked, publish matches before package matches, and entry
\* returned all the violations.
C20_Witness ==
    /\ ckReturn.kind = "Errors"
    /\ Len(ckPublish) = 2 /\ Len(ckPackages) = 2
    /\ Len(ckLoop.checked) = 4
    /\ ckLoop.errors[1].match = ckPublish[1]
    /\ \E i \in 1..Len(ckLoop.errors) : ckLoop.errors[i].match = ckPackages[2]

(***************************************************************************)
(* Claims about for_each_loc (checked under SpecLoc)                       *)
(***************************************************************************)

C30_InOrderUntilFirstFailure ==
    /\ Len(lLoop.calls) <= Len(lItems)
    /\ \A i \in 1..Len(lLoop.calls) :
          /\ lLoop.calls[i].at = i
          /\ lLoop.calls[i].value = lItems[i].value
          /\ i < Len(lLoop.calls) => lLoop.calls[i].outcome = <<>>
    /\ lLoop.result.kind = "Err" => lLoop.calls[Len(lLoop.calls)].outcome # <<>>
    /\ lLoop.result.kind = "Ok" =>
          /\ Len(lLoop.calls) = Len(lItems)
          /\ \A i \in 1..Len(lLoop.calls) : lLoop.calls[i].outcome = <<>>

\* The callback failed on the second of three items, and for_each_loc returned.
C30_Witness ==
    /\ Len(lItems) = 3
    /\ Len(lLoop.calls) = 2
    /\ lLoop.calls[2].outcome # <<>>
    /\ lLoop.result.kind = "Err"

(***************************************************************************)
(* Claims about the enum of an interface (checked under SpecRust)          *)
(***************************************************************************)

\* The variants among the lines of an enum: each opens with its name and
\* holds the identifiers of its field lines, in the order of the lines.
RECURSIVE VariantsOf(_, _)
VariantsOf(lines, acc) ==
    IF lines = <<>> THEN acc
    ELSE LET line == Head(lines)
         IN  IF Len(line) = 2 /\ line[2] = " {"
             THEN VariantsOf(Tail(lines),
                             Append(acc, [name |-> line[1], fields |-> <<>>]))
             ELSE IF Len(line) >= 3 /\ line[2] = ": " /\ acc # <<>>
             THEN VariantsOf(Tail(lines),
                             [acc EXCEPT ![Len(acc)].fields = Append(@, line[1])])
             ELSE VariantsOf(Tail(lines), acc)

\* The fields the variants of an interface are to hold, variant after
\* variant: the shared fields, then the sub-type's own.
RECURSIVE VariantFields(_, _)
VariantFields(body, i) ==
    IF i > Len(body.sub_types) THEN <<>>
    ELSE body.fields \o body.sub_types[i].fields \o VariantFields(body, i + 1)

\* The first of the fields whose type has no rust form, if any.
FirstUnrepresentable(list) ==
    LET failing == {i \in 1..Len(list) : Unrepresentable(list[i].ty)}
    IN  IF failing = {} THEN <<>>
        ELSE <<list[CHOOSE i \in failing : \A j \in failing : i <= j]>>

\* C22: once process_interface returned, either every field of every variant
\* has a rust form, and the one enum it pushed holds one variant for each
\* sub-type, in order, with the shared fields followed by the sub-type's own,
\* each once and in declaration order; or it returned the error of the first
\* field without a rust form, and pushed nothing.
C22_OneVariantPerSubType ==
    (rBody.kind = "Interface" /\ rResult # "None") =>
        LET failing == FirstUnrepresentable(VariantFields(rBody, 1))
        IN  IF failing = <<>>
            THEN /\ rResult = "Ok"
                 /\ Len(rOut) = 1
                 /\ VariantsOf(rOut[1].body, <<>>) =
                       [i \in 1..Len(rBody.sub_types) |->
                          [name |-> rBody.sub_types[i].name,
                           fields |->
                             [k \in 1..Len(rBody.fields \o rBody.sub_types[i].fields) |->
                                (rBody.fields \o rBody.sub_types[i].fields)[k].ident]]]
            ELSE /\ rResult = "Err"
                 /\ rOut = <<>>
                 /\ rPos = failing[1].pos

\* An interface with a shared field and two sub-types, the first with two
\* fields of its own, was emitted.
C22_Witness ==
    /\ rBody.kind = "Interface"
    /\ rResult = "Ok"
    /\ Len(rBody.fields) = 1
    /\ Len(rBody.sub_types) = 2
    /\ Len(rBody.sub_types[1].fields) = 2
    /\ Len(VariantsOf(rOut[1].body, <<>>)) = 2

(***************************************************************************)
(* Claims about GitObjects (checked under SpecGit)                         *)
(***************************************************************************)

\* The checksums put with success among the first n calls.
PutBefore(n) ==
    {gLog[j].checksum : j \in {k \in 1..n : gLog[k].call = "put_object" /\ gLog[k].ok}}

\* C23: after any calls of put_object, get_object and update on a GitObjects,
\* every get_object that returned told what a FileObjects put to in the same
\* way tells: the object, exactly when it was there at the start or put
\* before; the wrapped FileObjects holds what it held and what was put; and
\* the git repository was updated once for each update that returned Ok, and
\* never else.
C23_GitObjectsActsAsFileObjects ==
    /\ \A i \in 1..Len(gLog) :
          (gLog[i].call = "get_object" /\ gLog[i].ok) =>
              gLog[i].value =
                  IF gLog[i].checksum \in gStart \cup PutBefore(i - 1)
                  THEN <<gLog[i].checksum>> ELSE <<>>
    /\ gSelf.file_objects = gStart \cup PutBefore(Len(gLog))
    /\ gSelf.git_repo =
          Cardinality({i \in 1..Len(gLog) : gLog[i].call = "update" /\ gLog[i].ok})

\* An object that was not there was put, the repository was updated, and the
\* object was got.
C23_Witness ==
    /\ Len(gLog) = 3
    /\ "c1" \notin gStart
    /\ gLog[1].call = "put_object" /\ gLog[1].ok /\ gLog[1].checksum = "c1"
    /\ gLog[2].call = "update" /\ gLog[2].ok
    /\ gLog[3].call = "get_object" /\ gLog[3].value = <<"c1">>

(***************************************************************************)
(* Claims about publishing (checked under SpecIndex)                       *)
(***************************************************************************)

\* C24: a put_index for a version that is in the index with another checksum
\* fails with the error AlreadyPublished and leaves the entry as it was; a
\* put_index with the recorded checksum and a put_object succeed.
C24_PutIndexIsConditional ==
    /\ (iLast.call = "put_index" /\ iLast.before \notin {<<>>, <<iLast.checksum>>}) =>
          /\ ~iLast.ok
          /\ iLast.err = "AlreadyPublished"
          /\ iIndex[iLast.version] = iLast.before
    /\ (iLast.call = "put_index" /\ iLast.before = <<iLast.checksum>>) =>
          /\ iLast.ok
          /\ iIndex[iLast.version] = iLast.before
    /\ iLast.call = "put_object" => iLast.ok

(***************************************************************************)
(* Claims about java_quote_string (checked under SpecQuote)                *)
(***************************************************************************)

\* The character an escape sequence of Java denotes, by the character after
\* the backslash; None (<<>>) when there is no such sequence.
JavaEscape(c) ==
    CASE c = Chr.t -> <<Chr.tab>>
      [] c = Chr.b -> <<Chr.backspace>>
      [] c = Chr.n -> <<Chr.newline>>
      [] c = Chr.r -> <<Chr.return>>
      [] c = Chr.f -> <<Chr.formfeed>>
      [] c = Chr.apostrophe -> <<Chr.apostrophe>>
      [] c = Chr.quote -> <<Chr.quote>>
      [] c = Chr.backslash -> <<Chr.backslash>>
      [] OTHER -> <<>>

\* The string the characters between the quotes of a Java literal denote;
\* None (<<>>) when they are no such characters: a bare quote, a line end, or
\* a backslash that starts no escape sequence.
RECURSIVE JavaChars(_, _)
JavaChars(text, acc) ==
    IF text = <<>> THEN <<acc>>
    ELSE IF Head(text) = Chr.backslash
    THEN IF Len(text) < 2 \/ JavaEscape(text[2]) = <<>> THEN <<>>
         ELSE JavaChars(Tail(Tail(text)), acc \o JavaEscape(text[2]))
    ELSE IF Head(text) \in {Chr.quote, Chr.newline, Chr.return} THEN <<>>
    ELSE JavaChars(Tail(text), Append(acc, Head(text)))

\* The string a Java string literal denotes.
JavaDenoted(literal) ==
    IF Len(literal) < 2 \/ Head(literal) # Chr.quote \/ literal[Len(literal)] # Chr.quote
    THEN <<>>
    ELSE JavaChars(SubSeq(literal, 2, Len(literal) - 1), <<>>)

\* C29: the literal java_quote_string returns denotes, read under the escape
\* rules of Java, the string that was quoted.
C29_QuotedStringRoundTrips ==
    qOutput # <<>> => JavaDenoted(qOutput[1]) = <<qInput>>

(***************************************************************************)
(* Claims about Type::format (checked under SpecFmt)                       *)
(***************************************************************************)

PrimitiveNames == {ty.name : ty \in {l \in JavaLeaves : l.k = "primitive"}}

BoxedNames == {ty.boxed : ty \in {l \in JavaLeaves : l.k = "primitive"}}

\* How many primitive types a type holds, itself included.
RECURSIVE PrimitivesIn(_)
PrimitivesIn(ty) ==
    IF ty.k = "primitive" THEN 1
    ELSE IF ty.args = <<>> THEN 0
    ELSE IF Len(ty.args) = 1 THEN PrimitivesIn(ty.args[1])
    ELSE PrimitivesIn(ty.args[1]) + PrimitivesIn(ty.args[2])

\* C28: in the text of a formatted type a primitive name stands only for a
\* primitive type formatted at level 0, which is then the whole text; every
\* primitive type among the arguments of a class, however deep, is printed
\* with its boxed name, so that no primitive name stands between "<" and ">".
C28_PrimitivesBoxedInArguments ==
    fOut # <<>> =>
        LET text == fOut[1]
        IN  /\ \A i \in 1..Len(text) :
                  text[i] \in PrimitiveNames =>
                      fType.k = "primitive" /\ fLevel = 0 /\ text = <<fType.name>>
            /\ (fType.k = "primitive" /\ fLevel = 0) => text = <<fType.name>>
            /\ fType.k = "class" =>
                  Len(SelectSeq(text, LAMBDA t : t \in BoxedNames)) = PrimitivesIn(fType)

\* A map of lists of primitives was formatted at level 0.
C28_Witness ==
    /\ fOut # <<>>
    /\ fLevel = 0
    /\ fType.name = "Map"
    /\ fType.args[1].name = "List" /\ fType.args[1].args[1].k = "primitive"
    /\ fType.args[2].k = "primitive"
    /\ Len(SelectSeq(fOut[1], LAMBDA t : t \in BoxedNames)) = 2

(***************************************************************************)
(* Claims about the imports of a file (checked under SpecFile)             *)
(***************************************************************************)

\* The package and name of the classes a type refers to.
RECURSIVE ClassesIn(_)
ClassesIn(ty) ==
    IF ty.k = "primitive" THEN {}
    ELSE {<<ty.pkg, ty.name>>} \cup UNION {ClassesIn(ty.args[i]) : i \in 1..Len(ty.args)}

\* The classes the elements of a file refer to that need an import.
Importable(elements) ==
    {c \in UNION {UNION {ClassesIn(elements[i].fields[k].ty) :
                           k \in 1..Len(elements[i].fields)} :
                    i \in 1..Len(elements)} :
        c[1] # "java.lang" /\ c[1] # JavaPackage}

IsImport(line) == Len(line) > 0 /\ line[1] = "import"

ImportPosition(c) == CHOOSE i \in 1..Len(ClassOrder) : ClassOrder[i] = c

DeclKind(handle) ==
    CASE handle.kind = "SubType" -> "Interface"
      [] handle.kind = "EnumConstant" -> "Enum"
      [] OTHER -> handle.kind

\* C26: an interface is assignable from a sub-type exactly when the sub-type's
\* parent is that interface body, and an enum from a constant exactly when the
\* constant's parent is that enum body; a sub-type or a constant is never
\* assignable from an interface or an enum, and no handle from one of another
\* kind of declaration.
C26_ContainerFromMemberOnly ==
    hOut.ab # <<>> =>
        /\ (hA.kind = "Interface" /\ hB.kind = "SubType") =>
              (hOut.ab[1] <=> hB.body.ptr = hA.body.ptr)
        /\ (hA.kind = "Enum" /\ hB.kind = "EnumConstant") =>
              (hOut.ab[1] <=> hB.body.ptr = hA.body.ptr)
        /\ (hA.kind \in {"SubType", "EnumConstant"} /\ hB.kind \in {"Interface", "Enum"}) =>
              ~hOut.ab[1]
        /\ DeclKind(hA) # DeclKind(hB) => ~hOut.ab[1]

\* An interface was asked about a sub-type of its own, and about one of
\* another interface.
C26_Witness ==
    /\ hOut.ab = <<TRUE>>
    /\ hOut.ac = <<FALSE>>
    /\ hA.kind = "Interface"
    /\ hB.kind = "SubType"
    /\ hC.kind = "SubType"

\* C27: every handle is assignable from itself, and a handle assignable from
\* a second that is assignable from a third is assignable from the third.
C27_AssignableIsPreorder ==
    /\ hOut.aa # <<>> => hOut.aa[1]
    /\ (hOut.ab = <<TRUE>> /\ hOut.bc = <<TRUE>> /\ hOut.ac # <<>>) => hOut.ac[1]

\* An interface, a sub-type of it, and the same sub-type again: all four
\* questions were asked.
C27_Witness ==
    /\ hOut.aa = <<TRUE>>
    /\ hOut.ab = <<TRUE>>
    /\ hOut.bc = <<TRUE>>
    /\ hOut.ac = <<TRUE>>
    /\ hA.kind = "Interface"
    /\ hB.kind = "SubType"

====
